---- MODULE Spec2Model ----
(***************************************************************************)
(* A model of sexpy: the s-expression "head pattern" parser combinators    *)
(* (src/src/parsers.rs), the error accumulator and its renderer            *)
(* (src/src/error.rs), the leaf parsers (src/src/std_impls.rs), the        *)
(* parsers that #[derive(Sexpy)] composes (src/sexpy_derive/src) and the   *)
(* entry points parse / parse_verbose (src/src/lib.rs).                    *)
(*                                                                         *)
(* A buffer is a sequence of one-character strings.  A view (&str that is  *)
(* a suffix of the buffer) is the offset o of its first byte, 0..Len(s).   *)
(* A parser is a record (a syntax tree of combinators); Run interprets it  *)
(* on a view the way nom 5 runs the closures the source builds.            *)
(***************************************************************************)
EXTENDS Integers, Sequences, FiniteSets, TLC

VARIABLES
    phase,   \* "idle" before a call, then the name of the function called
    rule,    \* the type whose parser is called, or the parser a combinator wraps
    given,   \* the keyword or error entry the call was given, a sequence
    input,   \* the buffer the call reads
    view,    \* the offset in the buffer of the view handed to the call
    res,     \* the IResult of the typed parser or combinator
    out      \* what parse / parse_verbose / format_error returned

vars == <<phase, rule, given, input, view, res, out>>

-----------------------------------------------------------------------------
(* Characters *)

Lower == {"a","b","c","d","e","f","g","h","i","j","k","l","m",
          "n","o","p","q","r","s","t","u","v","w","x","y","z"}
Upper == {"A","B","C","D","E","F","G","H","I","J","K","L","M",
          "N","O","P","Q","R","S","T","U","V","W","X","Y","Z"}
\* nom's alpha1: a-z, A-Z
Alpha == Lower \cup Upper
\* nom's digit1: 0-9
Digits == {"0","1","2","3","4","5","6","7","8","9"}

\* one_of(" \t\r\n") in wordbreak0 / wordbreak1
Whitespace == {" ", "\t", "\r", "\n"}

\* let chars = " ()[]{}\n\t\r;" in word
WordBoundary == {" ", "(", ")", "[", "]", "{", "}", "\n", "\t", "\r", ";"}

\* let chars = " ()[]{}\\;" in impl Sexpy for String
StringBoundary == {" ", "(", ")", "[", "]", "{", "}", "\\", ";"}

-----------------------------------------------------------------------------
(* SexpyError: errors is a Vec of (view, kind); arg carries the kind's     *)
(* payload as a sequence of strings (a context label is the sequence of    *)
(* the pieces it was formatted from).                                      *)

Entry(at, kind, arg) == [at |-> at, kind |-> kind, arg |-> arg]

\* ParseError::from_error_kind
from_error_kind(i, kind) == <<Entry(i, "Nom", <<kind>>)>>

\* ParseError::append: other.errors.push(..)
append(i, kind, other) == Append(other, Entry(i, "Nom", <<kind>>))

\* ParseError::from_char
from_char(i, c) == <<Entry(i, "Char", <<c>>)>>

\* ParseError::add_context: other.errors.push(..)
\* (add_context_deepest: the variant that records the view of the first entry)
add_context_deepest(i, ctx, other) == Append(other, Entry(other[1].at, "Context", ctx))
\* (add_context_front: the variant that inserts at the front)
add_context_front(i, ctx, other) == <<Entry(i, "Context", ctx)>> \o other
add_context(i, ctx, other) == Append(other, Entry(i, "Context", ctx))

\* SexpyError::from_word
\* (from_word_silent: the variant that records nothing)
from_word_silent(i, w) == <<>>
from_word(i, w) == <<Entry(i, "Word", w)>>

\* SexpyError::number
number(i) == <<Entry(i, "Number", <<>>)>>

\* ParseError::or is not overridden: the default keeps the later error
\* (or_first: the variant that keeps the earlier error)
or_first(first, other) == first
or(first, other) == other

-----------------------------------------------------------------------------
(* IResult.  tag is "Ok", "Error" (Err::Error, recoverable) or "Failure"   *)
(* (Err::Failure, committed).  log is an observer's record of the          *)
(* candidates every alt started, in order.                                 *)

Attempt(site, k, i) == [site |-> site, cand |-> k, at |-> i]

Ok(rest, val, log) ==
    [tag |-> "Ok", rest |-> rest, val |-> val, errors |-> <<>>, log |-> log]
Err(tag, errors, log) ==
    [tag |-> tag, rest |-> 0, val |-> <<>>, errors |-> errors, log |-> log]
Error(errors) == Err("Error", errors, <<>>)

\* the same result, after the attempts in l
After(l, r) == [r EXCEPT !.log = l \o @]

IsOk(r) == r.tag = "Ok"
IsErr(r) == r.tag \in {"Error", "Failure"}

-----------------------------------------------------------------------------
(* Parsers as syntax trees.  The nom combinators the source calls:         *)

char(c)            == [op |-> "char", c |-> c]
anychar            == [op |-> "anychar"]
one_of(set)        == [op |-> "one_of", set |-> set]
none_of(set)       == [op |-> "none_of", set |-> set]
take_till(set)     == [op |-> "take_till", set |-> set]
alpha1             == [op |-> "alpha1"]
digit1             == [op |-> "digit1"]
peek(f)            == [op |-> "peek", f |-> f]
cut(f)             == [op |-> "cut", f |-> f]
opt(f)             == [op |-> "opt", f |-> f]
many0(f)           == [op |-> "many0", f |-> f]
many1(f)           == [op |-> "many1", f |-> f]
preceded(a, b)     == [op |-> "preceded", a |-> a, b |-> b]
delimited(a, b, c) == [op |-> "delimited", a |-> a, b |-> b, c |-> c]
tuple(fs)          == [op |-> "tuple", fs |-> fs]
\* site names the place of the source that builds the alternation
alt(site, fs)      == [op |-> "alt", site |-> site, fs |-> fs]

\* error::context(label, f)
context(label, f)  == [op |-> "context", label |-> label, f |-> f]

\* parsers::ignore: map(inner, |_| ())
ignore(inner)      == [op |-> "ignore", f |-> inner]

\* parsers::comment
\* (comment_to_blank: the variant that ends a comment at the first space)
comment_to_blank == ignore(preceded(char(";"), many0(none_of({" "}))))
comment == ignore(preceded(char(";"), many0(none_of({"\n"}))))

\* parsers::wordbreak0
\* (wordbreak0_once: the variant that takes at most one character or comment)
wordbreak0_once == ignore(opt(alt("wordbreak0", <<ignore(one_of(Whitespace)), comment>>)))
wordbreak0 == ignore(many0(alt("wordbreak0", <<ignore(one_of(Whitespace)), comment>>)))

\* parsers::wordbreak1
wordbreak1 == ignore(many1(alt("wordbreak1", <<ignore(one_of(Whitespace)), comment>>)))

\* parsers::word(tag): the closure is word_apply
word(tag) == [op |-> "word", tag |-> tag]

\* parsers::surround(inner, input): the body is surround_apply
surround(inner) == [op |-> "surround", f |-> inner]

\* parsers::head
\* (head_nocut: the variant without cut)
head_nocut(head_tag, inner) ==
    preceded(context(<<"incorrect head">>, word(head_tag)), inner)
head(head_tag, inner) ==
    preceded(context(<<"incorrect head">>, word(head_tag)), cut(inner))

\* the leaf parsers of std_impls.rs
String_   == [op |-> "String"]
u64       == [op |-> "u64"]
u32       == [op |-> "u32"]
i64       == [op |-> "i64"]
i32       == [op |-> "i32"]
Option(T) == [op |-> "Option", f |-> T]
Vec(T)    == [op |-> "Vec", f |-> T]
Box(T)    == [op |-> "Box", f |-> T]

\* let (next, binders) = ts(i)?; Ok((next, Name(binders)))
construct(name, f) == [op |-> "construct", name |-> name, f |-> f]

-----------------------------------------------------------------------------
(* Decimal text to integer, as str::parse::<uN / iN> decides it.  A value  *)
(* is kept as its canonical decimal text, so that 64-bit limits are exact. *)

DigitVal(c) ==
    CASE c = "0" -> 0 [] c = "1" -> 1 [] c = "2" -> 2 [] c = "3" -> 3
      [] c = "4" -> 4 [] c = "5" -> 5 [] c = "6" -> 6 [] c = "7" -> 7
      [] c = "8" -> 8 [] c = "9" -> 9

RECURSIVE StripZeros(_)
StripZeros(d) ==
    IF Len(d) > 1 /\ d[1] = "0" THEN StripZeros(Tail(d)) ELSE d

RECURSIVE LexLeq(_, _)
\* a <= b for digit sequences of one length
LexLeq(a, b) ==
    IF a = <<>> THEN TRUE
    ELSE IF DigitVal(a[1]) < DigitVal(b[1]) THEN TRUE
    ELSE IF DigitVal(a[1]) > DigitVal(b[1]) THEN FALSE
    ELSE LexLeq(Tail(a), Tail(b))

\* canonical a <= canonical b
DecLeq(a, b) == Len(a) < Len(b) \/ (Len(a) = Len(b) /\ LexLeq(a, b))

U64MaxText == <<"1","8","4","4","6","7","4","4","0","7",
                "3","7","0","9","5","5","1","6","1","5">>
U32MaxText == <<"4","2","9","4","9","6","7","2","9","5">>
I64MaxText == <<"9","2","2","3","3","7","2","0","3","6",
                "8","5","4","7","7","5","8","0","7">>
I32MaxText == <<"2","1","4","7","4","8","3","6","4","7">>
\* the digits of i64::MIN, one more than i64::MAX
I64MinDigits == <<"9","2","2","3","3","7","2","0","3","6",
                  "8","5","4","7","7","5","8","0","8">>

\* digits.parse::<T>() is Ok
ParsesWithin(digits, max) == DecLeq(StripZeros(digits), max)

-----------------------------------------------------------------------------
(* Running a parser on the view at offset i of buffer s.                   *)

RECURSIVE Run(_, _, _)
RECURSIVE many0_loop(_, _, _, _, _)
RECURSIVE tuple_from(_, _, _, _, _, _)
RECURSIVE alt_from(_, _, _, _, _, _, _)

\* the end of the longest run of characters outside stop, from offset i
SpanUntil(s, i, stop) ==
    CHOOSE j \in i..Len(s) :
        /\ j = Len(s) \/ s[j + 1] \in stop
        /\ \A k \in (i + 1)..j : s[k] \notin stop

\* the end of the longest run of characters inside acc, from offset i
SpanWhile(s, i, acc) ==
    CHOOSE j \in i..Len(s) :
        /\ j = Len(s) \/ s[j + 1] \notin acc
        /\ \A k \in (i + 1)..j : s[k] \in acc

\* the text between offsets i and j
Text(s, i, j) == SubSeq(s, i + 1, j)

char_apply(c, s, i) ==
    IF i < Len(s) /\ s[i + 1] = c
    THEN Ok(i + 1, c, <<>>)
    ELSE Error(from_char(i, c))

anychar_apply(s, i) ==
    IF i < Len(s)
    THEN Ok(i + 1, s[i + 1], <<>>)
    ELSE Error(from_error_kind(i, "Eof"))

one_of_apply(set, s, i) ==
    IF i < Len(s) /\ s[i + 1] \in set
    THEN Ok(i + 1, s[i + 1], <<>>)
    ELSE Error(from_error_kind(i, "OneOf"))

none_of_apply(set, s, i) ==
    IF i < Len(s) /\ s[i + 1] \notin set
    THEN Ok(i + 1, s[i + 1], <<>>)
    ELSE Error(from_error_kind(i, "NoneOf"))

\* take_till (complete): never fails, stops at the first character in set
take_till_apply(set, s, i) ==
    LET j == SpanUntil(s, i, set) IN Ok(j, Text(s, i, j), <<>>)

alpha1_apply(s, i) ==
    LET j == SpanWhile(s, i, Alpha) IN
    IF j = i THEN Error(from_error_kind(i, "Alpha"))
    ELSE Ok(j, Text(s, i, j), <<>>)

digit1_apply(s, i) ==
    LET j == SpanWhile(s, i, Digits) IN
    IF j = i THEN Error(from_error_kind(i, "Digit"))
    ELSE Ok(j, Text(s, i, j), <<>>)

\* map(inner, |_| ())
ignore_result(r) == IF IsOk(r) THEN [r EXCEPT !.val = <<>>] ELSE r

\* peek: the value, the input untouched
peek_result(i, r) == IF IsOk(r) THEN [r EXCEPT !.rest = i] ELSE r

\* cut: Err::Error becomes Err::Failure
cut_result(r) == IF r.tag = "Error" THEN [r EXCEPT !.tag = "Failure"] ELSE r

\* opt: None on Err::Error
opt_result(i, r) ==
    IF IsOk(r) THEN [r EXCEPT !.val = <<r.val>>]
    ELSE IF r.tag = "Error" THEN Ok(i, <<>>, r.log)
    ELSE r

\* error::context: Ok and the classification pass, one entry is added
\* (context_commits: the variant that returns every failure as Err::Failure)
context_commits(label, i, r) ==
    IF IsOk(r) THEN r
    ELSE [r EXCEPT !.errors = add_context(i, label, @), !.tag = "Failure"]
context_result(label, i, r) ==
    IF IsOk(r) THEN r
    ELSE [r EXCEPT !.errors = add_context(i, label, @)]

preceded_apply(a, b, s, i) ==
    LET ra == Run(a, s, i) IN
    IF ~IsOk(ra) THEN ra ELSE After(ra.log, Run(b, s, ra.rest))

delimited_apply(a, b, c, s, i) ==
    LET ra == Run(a, s, i) IN
    IF ~IsOk(ra) THEN ra ELSE
    LET rb == After(ra.log, Run(b, s, ra.rest)) IN
    IF ~IsOk(rb) THEN rb ELSE
    LET rc == After(rb.log, Run(c, s, rb.rest)) IN
    IF ~IsOk(rc) THEN rc ELSE [rc EXCEPT !.val = rb.val]

\* tuple((f1, .., fn)): in sequence, the first error returned
tuple_from(fs, k, s, i, vals, log) ==
    IF k > Len(fs) THEN Ok(i, vals, log)
    ELSE LET r == After(log, Run(fs[k], s, i)) IN
         IF ~IsOk(r) THEN r
         ELSE tuple_from(fs, k + 1, s, r.rest, Append(vals, r.val), r.log)

\* alt((f1, .., fn)): every candidate on input.clone(); a result other than
\* Err::Error is returned; after the last Err::Error, append(input, Alt, err)
\* (alt_last_match: the variant that tries every candidate and returns the
\* last one that is not Err::Error)
RECURSIVE alt_last_match(_, _, _, _, _, _, _)
alt_last_match(site, fs, k, s, i, err, log) ==
    LET r == After(Append(log, Attempt(site, k, i)), Run(fs[k], s, i)) IN
    IF k = Len(fs)
    THEN IF r.tag = "Error" THEN Err("Error", append(i, "Alt", r.errors), r.log) ELSE r
    ELSE LET later == alt_last_match(site, fs, k + 1, s, i, err, r.log) IN
         IF r.tag = "Error" \/ later.tag = "Ok" THEN later
         ELSE [r EXCEPT !.log = later.log]
alt_from(site, fs, k, s, i, err, log) ==
    LET r == After(Append(log, Attempt(site, k, i)), Run(fs[k], s, i))
        e == IF k = 1 THEN r.errors ELSE or(err, r.errors) IN
    IF r.tag # "Error" THEN r
    ELSE IF k = Len(fs) THEN Err("Error", append(i, "Alt", e), r.log)
    ELSE alt_from(site, fs, k + 1, s, i, e, r.log)

\* many0, one turn of its loop, r being what the element parser returned on
\* the view at offset i: stops on Err::Error; an element that consumed
\* nothing is an error
Return(r) == [done |-> TRUE, res |-> r]
Continue(i, acc, log) == [done |-> FALSE, at |-> i, acc |-> acc, log |-> log]
\* (many0_step_unchecked: the variant that goes on after an element that
\* consumed nothing)
many0_step_unchecked(i, acc, r) ==
    IF r.tag = "Error" THEN Return(Ok(i, acc, r.log))
    ELSE IF r.tag = "Failure" THEN Return(r)
    ELSE IF r.rest = i THEN Continue(i, acc, r.log)
    ELSE Continue(r.rest, Append(acc, r.val), r.log)
\* (many0_step_lenient: the variant that ends the loop on Err::Failure too)
many0_step_lenient(i, acc, r) ==
    IF r.tag \in {"Error", "Failure"} THEN Return(Ok(i, acc, r.log))
    ELSE IF r.rest = i THEN Return(Err("Error", from_error_kind(i, "Many0"), r.log))
    ELSE Continue(r.rest, Append(acc, r.val), r.log)
many0_step(i, acc, r) ==
    IF r.tag = "Error" THEN Return(Ok(i, acc, r.log))
    ELSE IF r.tag = "Failure" THEN Return(r)
    ELSE IF r.rest = i THEN Return(Err("Error", from_error_kind(i, "Many0"), r.log))
    ELSE Continue(r.rest, Append(acc, r.val), r.log)

\* many0: the loop
many0_loop(f, s, i, acc, log) ==
    LET turn == many0_step(i, acc, After(log, Run(f, s, i))) IN
    IF turn.done THEN turn.res
    ELSE many0_loop(f, s, turn.at, turn.acc, turn.log)

\* many1: the first element is required
many1_apply(f, s, i) ==
    LET r == Run(f, s, i) IN
    IF r.tag = "Error" THEN [r EXCEPT !.errors = append(i, "Many1", @)]
    ELSE IF r.tag = "Failure" THEN r
    ELSE IF r.rest = i THEN Err("Error", from_error_kind(i, "Many1"), r.log)
    ELSE many0_loop(f, s, r.rest, <<r.val>>, r.log)

\* parsers::word, the closure
\* (word_apply_prefix: the variant that accepts a token that starts with tag)
word_apply_prefix(tag, s, i) ==
    LET r == Run(context(<<"matching word">>, take_till(WordBoundary)), s, i) IN
    IF ~IsOk(r) THEN r
    ELSE IF Len(r.val) >= Len(tag) /\ SubSeq(r.val, 1, Len(tag)) = tag
    THEN Ok(r.rest, <<>>, <<>>)
    ELSE Error(from_word(i, r.val))
word_apply(tag, s, i) ==
    LET r == Run(context(<<"matching word">>, take_till(WordBoundary)), s, i) IN
    IF ~IsOk(r) THEN r
    ELSE IF r.val = tag THEN Ok(r.rest, <<>>, <<>>)
    ELSE Error(from_word(i, r.val))

\* parsers::surround
\* (surround_apply_nocut: the variant that does not cut its inner parser)
surround_apply_nocut(inner, s, i) ==
    LET first == Run(peek(anychar), s, i) IN
    IF IsOk(first) /\ first.val = "("
    THEN Run(delimited(char("("),
                       preceded(wordbreak0, inner),
                       context(<<"closing paren">>, preceded(wordbreak0, char(")")))),
             s, i)
    ELSE IF IsOk(first) /\ first.val = "["
    THEN Run(delimited(char("["),
                       preceded(wordbreak0, inner),
                       context(<<"closing bracket">>, preceded(wordbreak0, char("]")))),
             s, i)
    ELSE Error(from_char(i, "("))
surround_apply(inner, s, i) ==
    LET first == Run(peek(anychar), s, i) IN
    IF IsOk(first) /\ first.val = "("
    THEN Run(delimited(char("("),
                       preceded(wordbreak0, cut(inner)),
                       context(<<"closing paren">>, preceded(wordbreak0, char(")")))),
             s, i)
    ELSE IF IsOk(first) /\ first.val = "["
    THEN Run(delimited(char("["),
                       preceded(wordbreak0, cut(inner)),
                       context(<<"closing bracket">>, preceded(wordbreak0, char("]")))),
             s, i)
    ELSE Error(from_char(i, "("))

\* impl Sexpy for String
\* (String_apply_alnum: the variant whose first character may be a digit)
String_apply_alnum(s, i) ==
    LET r == Run(many1(none_of(StringBoundary)), s, i) IN
    IF ~IsOk(r) THEN r ELSE [r EXCEPT !.val = Text(s, i, r.rest)]
\* (String_apply_tail: the variant that drops the first letter)
String_apply_tail(s, i) ==
    LET r == Run(tuple(<<alpha1, many0(none_of(StringBoundary))>>), s, i) IN
    IF ~IsOk(r) THEN r ELSE [r EXCEPT !.val = r.val[2]]
String_apply(s, i) ==
    LET r == Run(tuple(<<alpha1, many0(none_of(StringBoundary))>>), s, i) IN
    IF ~IsOk(r) THEN r ELSE [r EXCEPT !.val = r.val[1] \o r.val[2]]

\* impl Sexpy for u64 / u32
unsigned_apply(max, s, i) ==
    LET r == Run(digit1, s, i) IN
    IF ~IsOk(r) THEN r
    ELSE IF ParsesWithin(r.val, max) THEN [r EXCEPT !.val = StripZeros(r.val)]
    ELSE Error(number(i))

\* impl Sexpy for i64 / i32
signed_apply(max, s, i) ==
    LET r == Run(tuple(<<opt(char("-")), digit1>>), s, i) IN
    IF ~IsOk(r) THEN r
    ELSE LET neg == r.val[1] # <<>>
             num == StripZeros(r.val[2]) IN
         IF ~ParsesWithin(r.val[2], max) THEN Error(number(i))
         ELSE IF neg /\ num # <<"0">> THEN [r EXCEPT !.val = <<"-">> \o num]
         ELSE [r EXCEPT !.val = num]

\* the derived body: the value is built from the bound fields
construct_result(name, r) ==
    IF IsOk(r) THEN [r EXCEPT !.val = [ctor |-> name, args |-> r.val]] ELSE r

Run(p, s, i) ==
    CASE p.op = "char"      -> char_apply(p.c, s, i)
      [] p.op = "anychar"   -> anychar_apply(s, i)
      [] p.op = "one_of"    -> one_of_apply(p.set, s, i)
      [] p.op = "none_of"   -> none_of_apply(p.set, s, i)
      [] p.op = "take_till" -> take_till_apply(p.set, s, i)
      [] p.op = "alpha1"    -> alpha1_apply(s, i)
      [] p.op = "digit1"    -> digit1_apply(s, i)
      [] p.op = "ignore"    -> ignore_result(Run(p.f, s, i))
      [] p.op = "peek"      -> peek_result(i, Run(p.f, s, i))
      [] p.op = "cut"       -> cut_result(Run(p.f, s, i))
      [] p.op = "opt"       -> opt_result(i, Run(p.f, s, i))
      [] p.op = "context"   -> context_result(p.label, i, Run(p.f, s, i))
      [] p.op = "preceded"  -> preceded_apply(p.a, p.b, s, i)
      [] p.op = "delimited" -> delimited_apply(p.a, p.b, p.c, s, i)
      [] p.op = "tuple"     -> tuple_from(p.fs, 1, s, i, <<>>, <<>>)
      [] p.op = "alt"       -> alt_from(p.site, p.fs, 1, s, i, <<>>, <<>>)
      [] p.op = "many0"     -> many0_loop(p.f, s, i, <<>>, <<>>)
      [] p.op = "many1"     -> many1_apply(p.f, s, i)
      [] p.op = "word"      -> word_apply(p.tag, s, i)
      [] p.op = "surround"  -> surround_apply(p.f, s, i)
      [] p.op = "String"    -> String_apply(s, i)
      [] p.op = "u64"       -> unsigned_apply(U64MaxText, s, i)
      [] p.op = "u32"       -> unsigned_apply(U32MaxText, s, i)
      [] p.op = "i64"       -> signed_apply(I64MaxText, s, i)
      [] p.op = "i32"       -> signed_apply(I32MaxText, s, i)
      [] p.op = "Option"    -> opt_result(i, Run(p.f, s, i))
      [] p.op = "Vec"       -> Run(many0(preceded(wordbreak0, p.f)), s, i)
      [] p.op = "Box"       -> Run(p.f, s, i)
      [] p.op = "construct" -> construct_result(p.name, Run(p.f, s, i))

-----------------------------------------------------------------------------
(* #[derive(Sexpy)]: the parser composed for a type declaration.  A name   *)
(* is the sequence of its characters; an absent Option is None.            *)

None == <<>>
Some(x) == <<x>>

LowerOf(c) ==
    CASE c = "A" -> "a" [] c = "B" -> "b" [] c = "C" -> "c" [] c = "D" -> "d"
      [] c = "E" -> "e" [] c = "F" -> "f" [] c = "G" -> "g" [] c = "H" -> "h"
      [] c = "I" -> "i" [] c = "J" -> "j" [] c = "K" -> "k" [] c = "L" -> "l"
      [] c = "M" -> "m" [] c = "N" -> "n" [] c = "O" -> "o" [] c = "P" -> "p"
      [] c = "Q" -> "q" [] c = "R" -> "r" [] c = "S" -> "s" [] c = "T" -> "t"
      [] c = "U" -> "u" [] c = "V" -> "v" [] c = "W" -> "w" [] c = "X" -> "x"
      [] c = "Y" -> "y" [] c = "Z" -> "z" [] OTHER -> c

\* name.to_string().to_lowercase()
to_lowercase(name) == [k \in 1..Len(name) |-> LowerOf(name[k])]

\* TyAttrs::default
TyAttrs_default == [nohead |-> FALSE, head |-> None, surround |-> TRUE]

\* TyAttrs::apply
TyAttrs_apply(attrs, ts) ==
    LET headed == IF ~attrs.nohead /\ attrs.head # None
                  THEN head(attrs.head[1], ts) ELSE ts IN
    IF attrs.surround THEN surround(headed) ELSE headed

\* FieldAttrs::default
FieldAttrs_default == [head |-> None, surround |-> FALSE]

\* FieldAttrs::apply
FieldAttrs_apply(attrs, ts) ==
    LET headed == IF attrs.head # None
                  THEN preceded(wordbreak0, head(attrs.head[1], ts)) ELSE ts IN
    IF attrs.surround THEN surround(headed) ELSE headed

\* a field of a struct or variant: its identifier, type and attributes
Field(ident, ty) == [ident |-> ident, ty |-> ty, attrs |-> FieldAttrs_default]

\* field_parser
field_parser(fields) ==
    [k \in 1..Len(fields) |-> FieldAttrs_apply(fields[k].attrs, fields[k].ty)]

\* struct_parser
struct_parser(struct_name, fields, attrs) ==
    LET flds == field_parser(fields)
        parser ==
            IF fields = <<>> THEN wordbreak0
            ELSE IF Len(fields) <= 1
            THEN context(<<fields[1].ident>>, preceded(wordbreak0, flds[1]))
            ELSE tuple([k \in 1..Len(fields) |->
                    context(<<fields[k].ident>>, preceded(wordbreak0, flds[k]))])
    IN construct(struct_name, TyAttrs_apply(attrs, parser))

\* variant_parser
variant_parser(id, var) ==
    LET fld_par == field_parser(var.fields)
        ctx == <<"Parsing ">> \o var.name
        field_syn ==
            IF var.fields = <<>> THEN wordbreak0
            ELSE IF Len(var.fields) = 1
            THEN context(ctx, preceded(wordbreak0, fld_par[1]))
            ELSE context(ctx, tuple([k \in 1..Len(var.fields) |->
                    preceded(wordbreak0, fld_par[k])]))
    IN construct(id \o <<"::">> \o var.name, FieldAttrs_apply(var.attrs, field_syn))

\* enum_parser, before the type attributes are applied: one parser per
\* variant, alt unless there is only one
enum_variants(parse_name, variants) ==
    [k \in 1..Len(variants) |-> variant_parser(parse_name, variants[k])]

\* enum_parser
\* (enum_parser_first: the variant that keeps the first declared parser only)
enum_parser_first(parse_name, variants, attrs) ==
    TyAttrs_apply(attrs, enum_variants(parse_name, variants)[1])
enum_parser(parse_name, variants, attrs) ==
    LET parsers == enum_variants(parse_name, variants)
        parser == IF Len(parsers) = 1 THEN parsers[1] ELSE alt("enum_parser", parsers)
    IN TyAttrs_apply(attrs, parser)

\* impl_sexpy: the default head is the lowercased type name
impl_sexpy(ast) ==
    LET attrs == IF ast.attrs.head = None
                 THEN [ast.attrs EXCEPT !.head = Some(to_lowercase(ast.name))]
                 ELSE ast.attrs IN
    IF ast.data = "enum"
    THEN enum_parser(ast.name, ast.variants, attrs)
    ELSE struct_parser(ast.name, ast.fields, attrs)

Struct(name, attrs, fields) ==
    [data |-> "struct", name |-> name, attrs |-> attrs, fields |-> fields]
Enum(name, attrs, variants) ==
    [data |-> "enum", name |-> name, attrs |-> attrs, variants |-> variants]
Variant(name, attrs, fields) ==
    [name |-> name, attrs |-> attrs, fields |-> fields]

-----------------------------------------------------------------------------
(* error.rs: rendering                                                     *)

\* str::lines: split at "\n", no empty last piece, and the "\r" before a
\* "\n" removed.  A last piece that ends with "\r" and has no "\n" after it
\* loses the "\r" under the standard library the crate was written for
\* ("cr_stripped") and keeps it under later ones ("cr_kept").
Toolchains == {"cr_stripped", "cr_kept"}

StripCR(l) == IF Len(l) > 0 /\ l[Len(l)] = "\r" THEN SubSeq(l, 1, Len(l) - 1) ELSE l

RECURSIVE lines_from(_, _, _)
lines_from(std, s, i) ==
    IF i >= Len(s) THEN <<>>
    ELSE LET j == SpanUntil(s, i, {"\n"}) IN
         IF j = Len(s)
         THEN <<IF std = "cr_kept" THEN Text(s, i, j) ELSE StripCR(Text(s, i, j))>>
         ELSE <<StripCR(Text(s, i, j))>> \o lines_from(std, s, j + 1)

lines(std, s) == lines_from(std, s, 0)

\* fn offset: the address difference of two views of one buffer
offset(first, second) == second - first

\* format_error, the loop over lines: line and column of an offset.
\* usize arithmetic: a subtraction below zero panics.
\* (locate_unguarded: the variant whose comparison is < instead of <=)
RECURSIVE locate_unguarded(_, _, _)
locate_unguarded(ls, j, off) ==
    IF j > Len(ls) THEN [panic |-> FALSE, line |-> 0, column |-> 0]
    ELSE IF off < Len(ls[j]) THEN [panic |-> FALSE, line |-> j - 1, column |-> off]
    ELSE IF off - Len(ls[j]) - 1 < 0 THEN [panic |-> TRUE, line |-> 0, column |-> 0]
    ELSE locate_unguarded(ls, j + 1, off - Len(ls[j]) - 1)

RECURSIVE locate(_, _, _)
locate(ls, j, off) ==
    IF j > Len(ls) THEN [panic |-> FALSE, line |-> 0, column |-> 0]
    ELSE IF off <= Len(ls[j]) THEN [panic |-> FALSE, line |-> j - 1, column |-> off]
    ELSE IF off - Len(ls[j]) - 1 < 0 THEN [panic |-> TRUE, line |-> 0, column |-> 0]
    ELSE locate(ls, j + 1, off - Len(ls[j]) - 1)

\* what the last line of a rendered entry says
\* (describe_short: the variant that takes the last character for the end)
describe_short(s, e, empty) ==
    LET found == IF e.at + 1 < Len(s) THEN s[e.at + 1] ELSE "<eof>" IN
    CASE e.kind = "Char" ->
            IF empty THEN <<"expected", e.arg[1], "got empty input">>
            ELSE <<"expected", e.arg[1], "found", found>>
      [] e.kind = "Word" ->
            IF empty THEN <<"expected a keyword, got empty input">>
            ELSE <<"expected a keyword, found">> \o e.arg
      [] e.kind = "Number" ->
            IF empty THEN <<"expected a number, got empty input">>
            ELSE <<"unable to parse number">>
      [] OTHER ->
            IF empty THEN <<"in">> \o e.arg \o <<"got empty input">> ELSE <<>>
describe(s, e, empty) ==
    LET found == IF e.at < Len(s) THEN s[e.at + 1] ELSE "<eof>" IN
    CASE e.kind = "Char" ->
            IF empty THEN <<"expected", e.arg[1], "got empty input">>
            ELSE <<"expected", e.arg[1], "found", found>>
      [] e.kind = "Word" ->
            IF empty THEN <<"expected a keyword, got empty input">>
            ELSE <<"expected a keyword, found">> \o e.arg
      [] e.kind = "Number" ->
            IF empty THEN <<"expected a number, got empty input">>
            ELSE <<"unable to parse number">>
      [] e.kind = "Context" ->
            IF empty THEN <<"in">> \o e.arg \o <<"got empty input">> ELSE <<>>
      [] e.kind = "Nom" ->
            IF empty THEN <<"in">> \o e.arg \o <<"got empty input">> ELSE <<>>

\* format_error: one rendered entry.  located is FALSE for the branch taken
\* when the buffer has no lines; source is lines[line], caret the number of
\* spaces before "^".
Rendered(num, e, located, at, source, desc) ==
    [panic |-> FALSE, num |-> num, kind |-> e.kind, label |-> e.arg,
     located |-> located, line |-> at.line, column |-> at.column,
     source |-> source, desc |-> desc]
Panic == [panic |-> TRUE]

format_error(std, s, num, e) ==
    LET ls == lines(std, s)
        off == offset(0, e.at) IN
    IF off < 0 THEN Panic
    ELSE IF ls = <<>>
    THEN Rendered(num, e, FALSE, [line |-> 0, column |-> 0], <<>>, describe(s, e, TRUE))
    ELSE LET at == locate(ls, 1, off) IN
         IF at.panic \/ at.line + 1 > Len(ls) THEN Panic
         ELSE Rendered(num, e, TRUE, at, ls[at.line + 1], describe(s, e, FALSE))

\* SexpyError::convert_error: only errors[0]
convert_error(std, errors, s) ==
    IF errors = <<>> THEN <<Panic>> ELSE <<format_error(std, s, 0, errors[1])>>

\* SexpyError::convert_error_verbose: every entry, in stored order
convert_error_verbose(std, errors, s) ==
    [k \in 1..Len(errors) |-> format_error(std, s, k - 1, errors[k])]

\* what a call of parse / parse_verbose returns (or that it panicked)
Returned(r, msg) ==
    IF IsOk(r) THEN [tag |-> "Ok", val |-> r.val, msg |-> <<>>]
    ELSE IF \E k \in 1..Len(msg) : msg[k].panic
    THEN [tag |-> "Panic", val |-> <<>>, msg |-> <<>>]
    ELSE [tag |-> "Err", val |-> <<>>, msg |-> msg]

\* Sexpy::parse
\* (parse_whole: the variant that refuses a remainder that is not empty)
parse_whole(std, T, s) ==
    LET r == Run(preceded(wordbreak0, T), s, 0) IN
    IF IsOk(r) /\ r.rest # Len(s)
    THEN [tag |-> "Err", val |-> <<>>, msg |-> <<>>]
    ELSE Returned(r, IF IsOk(r) THEN <<>> ELSE convert_error(std, r.errors, s))
parse(std, T, s) ==
    LET r == Run(preceded(wordbreak0, T), s, 0) IN
    Returned(r, IF IsOk(r) THEN <<>> ELSE convert_error(std, r.errors, s))

\* Sexpy::parse_verbose
parse_verbose(std, T, s) ==
    LET r == Run(preceded(wordbreak0, T), s, 0) IN
    Returned(r, IF IsOk(r) THEN <<>> ELSE convert_error_verbose(std, r.errors, s))

-----------------------------------------------------------------------------
(* The type declarations that are parsed: those of the tests and of the    *)
(* crate documentation.                                                    *)

K_notanumber == <<"n","o","t","a","n","u","m","b","e","r">>
K_portdef == <<"p","o","r","t","d","e","f">>
K_plant == <<"p","l","a","n","t">>
N_Value == <<"V","a","l","u","e">>
N_Num == <<"N","u","m">>
N_Text == <<"T","e","x","t">>
N_Neg == <<"N","e","g">>
N_Portdef == <<"P","o","r","t","d","e","f">>
N_Plant == <<"P","l","a","n","t">>
N_PalmTree == <<"P","a","l","m","T","r","e","e">>
N_Cactus == <<"C","a","c","t","u","s">>
N_Rule == <<"R","u","l","e">>
N_Foo == <<"F","o","o">>
N_Bar == <<"B","a","r">>
N_Either == <<"E","i","t","h","e","r">>
N_Left == <<"L","e","f","t">>
N_Right == <<"R","i","g","h","t">>
K_plt == <<"p","l","t">>
K_foo == <<"f","o","o">>
K_bar == <<"b","a","r">>
K_foo_bar == <<"f","o","o","-","b","a","r">>
K_cactus == <<"c","a","c","t","u","s">>
K_joshua_tree == <<"j","o","s","h","u","a","-","t","r","e","e">>
N_JoshuaTree == <<"J","o","s","h","u","a","T","r","e","e">>

\* struct Portdef { name: String, width: u64 }
Portdef == Struct(N_Portdef, TyAttrs_default,
                  <<Field("name", String_), Field("width", u64)>>)

\* struct Plant {}: a rule with no arguments
Plant0 == Struct(N_Plant, TyAttrs_default, <<>>)

\* enum Plant { PalmTree, Cactus }
PlantUnit == Enum(N_Plant, TyAttrs_default,
                  <<Variant(N_PalmTree, FieldAttrs_default, <<>>),
                    Variant(N_Cactus, FieldAttrs_default, <<>>)>>)

\* #[sexpy(head = "plt")] enum Plant { PalmTree(String, u64), Cactus }
Plt == Enum(N_Plant, [TyAttrs_default EXCEPT !.head = Some(K_plt)],
            <<Variant(N_PalmTree, FieldAttrs_default,
                      <<Field("a_0", String_), Field("a_1", u64)>>),
              Variant(N_Cactus, FieldAttrs_default, <<>>)>>)

\* the same with the variants declared in the other order
PltRev == Enum(N_Plant, [TyAttrs_default EXCEPT !.head = Some(K_plt)],
               <<Variant(N_Cactus, FieldAttrs_default, <<>>),
                 Variant(N_PalmTree, FieldAttrs_default,
                         <<Field("a_0", String_), Field("a_1", u64)>>)>>)

\* #[sexpy(nohead)] enum Rule { #[sexpy(head = "foo")] Foo(u64),
\*                              #[sexpy(head = "bar")] Bar(u64) }
FooBarVariants ==
    <<Variant(N_Foo, [FieldAttrs_default EXCEPT !.head = Some(K_foo)],
              <<Field("a_0", u64)>>),
      Variant(N_Bar, [FieldAttrs_default EXCEPT !.head = Some(K_bar)],
              <<Field("a_0", u64)>>)>>
FooBar == Enum(N_Rule, [TyAttrs_default EXCEPT !.nohead = TRUE], FooBarVariants)

\* the same with #[sexpy(nohead, nosurround)]: the alternation alone
FooBarAlt == Enum(N_Rule, [nohead |-> TRUE, head |-> None, surround |-> FALSE],
                  FooBarVariants)

\* enum Plant { #[sexpy(head = "cactus")] Cactus(String, u64),
\*              #[sexpy(head = "joshua-tree")] JoshuaTree(String, u64) }
PlantVariants ==
    <<Variant(N_Cactus, [FieldAttrs_default EXCEPT !.head = Some(K_cactus)],
              <<Field("a_0", String_), Field("a_1", u64)>>),
      Variant(N_JoshuaTree, [FieldAttrs_default EXCEPT !.head = Some(K_joshua_tree)],
              <<Field("a_0", String_), Field("a_1", u64)>>)>>
PlantHeads == Enum(N_Plant, TyAttrs_default, PlantVariants)

\* the same with the variants declared in the other order
PlantHeadsRev == Enum(N_Plant, TyAttrs_default, <<PlantVariants[2], PlantVariants[1]>>)

\* the same with #[sexpy(nohead)], in both orders
PlantNoHead == Enum(N_Plant, [TyAttrs_default EXCEPT !.nohead = TRUE], PlantVariants)
PlantNoHeadRev ==
    Enum(N_Plant, [TyAttrs_default EXCEPT !.nohead = TRUE],
         <<PlantVariants[2], PlantVariants[1]>>)

\* struct Foo { item: u64 } and struct Bar { item: u64 }: (foo n) and (bar n)
FooStruct == Struct(N_Foo, TyAttrs_default, <<Field("item", u64)>>)
BarStruct == Struct(N_Bar, TyAttrs_default, <<Field("item", u64)>>)

\* #[sexpy(nohead, nosurround)] enum Rule { Left { data: Foo }, Right { data: Bar } }:
\* an alternation of two forms, each with its own delimiters and head
Wrapped == Enum(N_Rule, [nohead |-> TRUE, head |-> None, surround |-> FALSE],
                <<Variant(N_Left, FieldAttrs_default, <<Field("data", impl_sexpy(FooStruct))>>),
                  Variant(N_Right, FieldAttrs_default, <<Field("data", impl_sexpy(BarStruct))>>)>>)

\* #[sexpy(nosurround, head = "foo")] struct Left { item: String }
Left == Struct(N_Left, [nohead |-> FALSE, head |-> Some(K_foo), surround |-> FALSE],
               <<Field("item", String_)>>)

\* #[sexpy(nosurround, head = "foo-bar")] struct Right { item: u64 }
Right == Struct(N_Right, [nohead |-> FALSE, head |-> Some(K_foo_bar), surround |-> FALSE],
                <<Field("item", u64)>>)

\* enum Either { Left { data: Left }, Right { data: Right } }
Either == Enum(N_Either, TyAttrs_default,
               <<Variant(N_Left, FieldAttrs_default, <<Field("data", impl_sexpy(Left))>>),
                 Variant(N_Right, FieldAttrs_default, <<Field("data", impl_sexpy(Right))>>)>>)

\* #[sexpy(nohead, nosurround)] enum Value { Num(u64), Text(String), Neg(i64) }
Value == Enum(N_Value, [nohead |-> TRUE, head |-> None, surround |-> FALSE],
              <<Variant(N_Num, FieldAttrs_default, <<Field("a_0", u64)>>),
                Variant(N_Text, FieldAttrs_default, <<Field("a_0", String_)>>),
                Variant(N_Neg, FieldAttrs_default, <<Field("a_0", i64)>>)>>)

Types == {"Portdef", "Plant0", "PlantUnit", "Plt", "PltRev", "FooBar", "FooBarAlt",
          "Either", "Value", "PlantHeads", "PlantHeadsRev", "PlantNoHead",
          "PlantNoHeadRev", "Wrapped"}

Decl(T) ==
    CASE T = "Portdef" -> Portdef [] T = "Plant0" -> Plant0
      [] T = "PlantUnit" -> PlantUnit [] T = "Plt" -> Plt [] T = "PltRev" -> PltRev
      [] T = "FooBar" -> FooBar [] T = "FooBarAlt" -> FooBarAlt
      [] T = "Either" -> Either [] T = "Value" -> Value
      [] T = "PlantHeads" -> PlantHeads [] T = "PlantHeadsRev" -> PlantHeadsRev
      [] T = "PlantNoHead" -> PlantNoHead [] T = "PlantNoHeadRev" -> PlantNoHeadRev
      [] T = "Wrapped" -> Wrapped

\* <T>::sexp_parse
sexp_parse(T) == impl_sexpy(Decl(T))

\* the types declared as enums, and those whose parser is the alternation alone
EnumTypes == {T \in Types : Decl(T).data = "enum"}
BareAlternations == {T \in EnumTypes : Decl(T).attrs.nohead /\ ~Decl(T).attrs.surround}

\* the candidates of the alternation of an enum, in declaration order
Candidates(T) == enum_variants(Decl(T).name, Decl(T).variants)

-----------------------------------------------------------------------------
(* The buffers the entry points are called with.                           *)

\* the largest number of pieces a buffer is put together from
MaxPieces == 2
\* the largest number of characters that follow the first letter of a text token
MaxTail == 2
\* the largest integer written into a buffer
MaxNum == 12
\* the largest number of pieces a buffer handed to format_error is put together from
MaxLines == 3

\* all concatenations of one element of each set, in order
RECURSIVE Prod(_)
Prod(sets) ==
    IF sets = <<>> THEN {<<>>}
    ELSE {a \o b : a \in sets[1], b \in Prod(Tail(sets))}

\* all concatenations of at most n elements of set
RECURSIVE Upto(_, _)
Upto(set, n) ==
    IF n = 0 THEN {<<>>}
    ELSE Upto(set, n - 1) \cup {a \o b : a \in Upto(set, n - 1), b \in set}

\* the decimal text of a natural number
RECURSIVE ToDigits(_)
DigitChar(d) == CHOOSE c \in Digits : DigitVal(c) = d
ToDigits(n) ==
    IF n < 10 THEN <<DigitChar(n)>> ELSE Append(ToDigits(n \div 10), DigitChar(n % 10))

\* pieces every buffer family draws from
Common == {<<"(">>, <<")">>, <<" ">>, <<"\n">>}

Pieces(T) ==
    Common \cup
    CASE T = "Portdef"   -> {<<"p","o","r","t","d","e","f">>, <<"f","o","o">>, <<"2","0">>}
      [] T = "Plant0"    -> {<<"p","l","a","n","t">>, <<"h","i">>}
      [] T = "PlantUnit" -> {<<"p","l","a","n","t">>, <<"h","i">>}
      [] T = "Plt"       -> {<<"p","l","t">>, <<"t","e","s","t">>, <<"4">>}
      [] T = "PltRev"    -> {<<"p","l","t">>, <<"t","e","s","t">>, <<"4">>}
      [] T = "FooBar"    -> {<<"f","o","o">>, <<"b","a","r">>,
         <<"n","o","t","a","n","u","m","b","e","r">>, <<"1">>}
      [] T = "FooBarAlt" -> {<<"f","o","o">>, <<"b","a","r">>,
         <<"n","o","t","a","n","u","m","b","e","r">>, <<"1">>}
      [] T = "Either"    -> {<<"e","i","t","h","e","r">>, <<"f","o","o">>, <<"-","b","a","r">>,
         <<"h","i">>, <<"3","2">>}
      [] T = "Value"     -> {<<"1","2">>, <<"a","b">>, <<"-">>}
      [] T = "Wrapped"   -> {K_foo, K_bar, <<"1">>}
      [] OTHER           -> {K_plant, K_cactus, <<"4">>}

\* text tokens: a letter, then at most MaxTail characters outside the
\* boundary set of word, the backslash among them
TokenFirst == {<<"f">>, <<"Q">>}
TokenRest == {<<"o">>, <<"7">>, <<"-">>, <<"\\">>}
TextTokens == {a \o b : a \in TokenFirst, b \in Upto(TokenRest, MaxTail)}

\* decimal texts of unsigned integers: the small ones and the largest u64
NumTexts == {ToDigits(n) : n \in 0..MaxNum} \cup {U64MaxText}

\* what may follow a complete form
Trailers == {<<>>, <<" ","x">>, <<")">>}

\* (portdef t n) for every text token t and number n, and what follows it
PortdefForms ==
    Prod(<<{<<"(","p","o","r","t","d","e","f"," ">>}, TextTokens, {<<" ">>}, NumTexts, {<<")">>}, Trailers>>)

\* (portdef t n) with every kind of whitespace after the text token
TextSeps == {<<" ">>, <<"\t">>, <<"\r">>, <<"\n">>, <<"\r","\n">>, <<" ","\t">>}
PortdefSepForms ==
    Prod(<<{<<"(">> \o K_portdef \o <<" ">>}, {<<"f","o","o">>, <<"Q">>}, TextSeps,
           {<<"2","0">>, <<"0">>}, {<<")">>}>>)

\* (portdef n t): the fields in the other order; and the form without its
\* delimiters
SwappedForms ==
    Prod(<<{<<"(">> \o K_portdef \o <<" ">>}, NumTexts, {<<" ">>},
           {<<"f","o","o">>, <<"Q","7">>}, {<<")">>}>>)
    \cup Prod(<<{K_portdef \o <<" ">>}, {<<"f","o","o">>, <<"Q","7">>}, {<<" ">>},
                NumTexts>>)

\* (plant h t n) and (h t n) for keywords h of the variants and other words
HeadWords == {K_cactus, K_joshua_tree, <<"j","o","s","h","u","a">>}
HeadTexts == {<<"j","o","s","h">>, <<"c">>}
HeadNums == {<<"4","0","0">>, <<"4">>}
HeadForms ==
    Prod(<<{<<"(">>}, {<<>>, K_plant \o <<" ">>}, HeadWords, {<<" ">>}, HeadTexts,
           {<<" ">>}, HeadNums, {<<")">>, <<>>}>>)

\* decimal texts at the ends of the range of i64, and past them
SignedTexts ==
    {<<"-">> \o I64MaxText, <<"-">> \o I64MinDigits, <<"-">> \o U64MaxText,
     <<"-","0">>, <<"-","0","7">>, I64MaxText, I64MinDigits}

\* forms around a head and its arguments, well-formed and not
Forms(T) ==
    CASE T = "Portdef" ->
            PortdefForms \cup PortdefSepForms \cup SwappedForms \cup
            Prod(<<{<<"(">>, <<"[">>, <<"("," ">>, <<"{">>}, {<<"p","o","r","t","d","e","f">>}, {<<" ">>, <<"\n">>, <<"\t">>, <<"\r","\n">>, <<" ",";","c","\n">>, <<>>},
                   {<<"f","o","o">>, <<"2","0">>, <<>>}, {<<" ">>, <<>>},
                   {<<"2","0">>, <<"f","o","o">>,
         <<"9","9","9","9","9","9","9","9","9","9","9","9","9","9","9","9","9","9","9","9">>,
         <<>>},
                   {<<")">>, <<"]">>, <<" ",")">>, <<>>, <<"}">>}>>)
      [] T \in {"Plant0", "PlantUnit"} ->
            Prod(<<{<<"(">>, <<"[">>, <<"{">>, <<>>}, {<<"p","l","a","n","t">>, <<"p","l","a","n">>,
         <<"p","l","a","n","t","s">>},
                   {<<>>, <<" ">>, <<" "," "," ">>, <<" ","h","i">>, <<"\n">>,
         <<";","c","\n">>, <<" ",";","c">>},
                   {<<")">>, <<"]">>, <<>>, <<"}">>, <<")"," ","x">>}>>)
      [] T \in {"Plt", "PltRev"} ->
            Prod(<<{<<"(">>, <<"[">>}, {<<"p","l","t">>, <<"p","l","a","n","t">>},
                   {<<>>, <<" ">>, <<" ","t","e","s","t"," ","4">>,
         <<" ","t","e","s","t">>, <<" ","t","e","s","t"," ","x">>,
         <<" ","4">>, <<" ","t","e","s","t"," ","4"," ","5">>,
         <<"\n","t","e","s","t","\n","4">>, <<" ","h","i">>},
                   {<<")">>, <<"]">>, <<>>}>>)
      [] T = "FooBar" ->
            Prod(<<{<<"(">>, <<"[">>, <<>>}, {<<>>, <<" ">>}, {<<"f","o","o">>, <<"b","a","r">>, <<"b","a","z">>,
         <<"f","o","o","-","b","a","r">>, <<>>},
                   {<<" ">>, <<"\n">>},
                   {<<"n","o","t","a","n","u","m","b","e","r">>, <<"1">>, <<"1","2">>,
         <<>>,
         <<"9","9","9","9","9","9","9","9","9","9","9","9","9","9","9","9","9","9","9","9">>,
         <<"-","1">>},
                   {<<")">>, <<"]">>, <<>>}>>)
      [] T = "FooBarAlt" ->
            Prod(<<{<<>>, <<" ">>, <<"\n">>}, {<<"f","o","o">>, <<"b","a","r">>, <<"b","a","z">>,
         <<"f","o","o","-","b","a","r">>, <<>>},
                   {<<" ">>, <<>>},
                   {<<"n","o","t","a","n","u","m","b","e","r">>, <<"1">>, <<"1","2">>,
         <<>>,
         <<"9","9","9","9","9","9","9","9","9","9","9","9","9","9","9","9","9","9","9","9">>,
         <<"-","1">>},
                   {<<>>, <<")">>}>>)
      [] T = "Either" ->
            Prod(<<{<<"(">>, <<"[">>}, {<<"e","i","t","h","e","r">>, <<"e","i","t","h","e">>}, {<<" ">>},
                   {<<"f","o","o">>, <<"f","o","o","-","b","a","r">>,
         <<"f","o","o","-">>, <<"b","a","r">>, <<"f","o">>}, {<<" ">>, <<>>},
                   {<<"h","i">>, <<"3","2">>, <<>>, <<"h","1">>, <<"3","x">>},
                   {<<")">>, <<>>, <<" ",")">>}>>)
      [] T = "Value" ->
            Prod(<<{<<>>, <<" ">>, <<"\n">>}, {<<"1","2">>, <<"a","b">>, <<"-","7">>, <<"-","x">>, <<"(">>, <<>>,
         <<"9","9","9","9","9","9","9","9","9","9","9","9","9","9","9","9","9","9","9","9">>,
         <<"-">>, <<"a","1">>, <<"1","a">>},
                   {<<>>, <<")">>}>>)
            \cup SignedTexts
      [] T = "Wrapped" ->
            Prod(<<{<<"(">>, <<"[">>, <<"("," ">>}, {K_foo, K_bar, <<"b","a","z">>, <<>>},
                   {<<" ","1">>, <<" ","x">>, <<>>}, {<<")">>, <<"]">>, <<>>}>>)
      [] OTHER -> HeadForms

\* well-formed forms, and the comments put into them
Plain(T) ==
    CASE T = "Portdef"   -> {<<"(">> \o K_portdef \o <<" ","f","o","o"," ","2","0",")">>}
      [] T = "Plant0"    -> {<<"(">> \o K_plant \o <<")">>}
      [] T = "Plt"       -> {<<"(">> \o K_plt \o <<" ","t","e","s","t"," ","4",")">>,
                             <<"(">> \o K_plt \o <<")">>}
      [] T = "FooBarAlt" -> {K_foo \o <<" ","1">>, K_bar \o <<" ","1","2">>}
      [] T = "Either"    -> {<<"(","e","i","t","h","e","r"," ">> \o K_foo \o <<" ","h","i",")">>,
                             <<"(","e","i","t","h","e","r"," ">> \o K_foo_bar \o <<" ","3","2",")">>}
      [] OTHER           -> {}
Notes == {<<";"," ","n","o","t","e","\n">>, <<";","\n">>}

\* the offsets of s that are not inside a token
Between(s) ==
    {p \in 0..Len(s) :
        \/ p = 0 \/ p = Len(s)
        \/ s[p] \in Whitespace \cup {"(", ")"}
        \/ s[p + 1] \in Whitespace \cup {"(", ")"}}
Insert(s, p, note) == SubSeq(s, 1, p) \o note \o SubSeq(s, p + 1, Len(s))
CommentForms(T) ==
    UNION {{Insert(s, p, note) : p \in Between(s), note \in Notes} : s \in Plain(T)}

Buffers(T) == Upto(Pieces(T), MaxPieces) \cup Forms(T) \cup CommentForms(T)

-----------------------------------------------------------------------------
(* The calls.                                                              *)

\* word(tag) is called on: a run of characters, what ends it, what follows
WordTags == {<<"f","o","o">>, <<"f","o","o","-","b","a","r">>}
WordBuffers ==
    Prod(<<Upto({<<"f","o","o">>, <<"-","b","a","r">>, <<"x">>}, MaxPieces),
           {<<>>} \cup {<<c>> : c \in WordBoundary \cup {"\\"}},
           {<<>>, <<"y">>}>>)

WordLeads == {<<>>, <<"(", " ">>}

\* the parsers surround is given
Inners == {"wordbreak0", "head", "String", "u64", "Vec"}
Inner(name) ==
    CASE name = "wordbreak0" -> wordbreak0
      [] name = "head"       -> head(K_foo, wordbreak0)
      [] name = "String"     -> String_
      [] name = "u64"        -> u64
      [] name = "Vec"        -> Vec(String_)

SurroundBuffers ==
    Prod(<<{<<"(">>, <<"[">>, <<"{">>, <<>>}, {<<>>, <<" ">>},
           {<<"f","o","o">>, <<"f","o","o"," ","b","a","r">>, <<"1","2">>, <<>>},
           {<<>>, <<" ">>, <<"\n">>, <<" ",";","c","\n">>, <<";","c">>},
           {<<")">>, <<"]">>, <<>>, <<"x",")">>, <<"}">>, <<")","x">>}>>)

\* format_error is called on: a buffer and an entry whose view is a suffix of it
RenderBuffers == Upto({<<"a">>, <<"b","c">>, <<"\n">>, <<"\r","\n">>, <<"\r">>}, MaxLines)
RenderEntries(s) ==
    {Entry(o, k[1], k[2]) : o \in 0..Len(s),
        k \in {<<"Char", <<")">>>>, <<"Word", <<"x">>>>, <<"Number", <<>>>>,
               <<"Context", <<"closing paren">>>>, <<"Nom", <<"Digit">>>>}}

NoResult == [tag |-> "None"]

Init ==
    /\ phase = "idle"
    /\ rule = "none"
    /\ given = <<>>
    /\ input = <<>>
    /\ view = 0
    /\ res = NoResult
    /\ out = NoResult

\* <T>::sexp_parse(input)
CallSexpParse ==
    /\ phase = "idle"
    /\ \E T \in Types : \E s \in Buffers(T) :
        /\ rule' = T
        /\ input' = s
        /\ res' = Run(sexp_parse(T), s, 0)
    /\ given' = <<>>
    /\ out' = NoResult
    /\ view' = 0
    /\ phase' = "sexp_parse"

\* <T>::parse(input)
CallParse ==
    /\ phase = "idle"
    /\ \E T \in Types : \E s \in Buffers(T) :
        /\ rule' = T
        /\ input' = s
        /\ \E std \in Toolchains : out' = parse(std, sexp_parse(T), s)
    /\ given' = <<>>
    /\ res' = NoResult
    /\ view' = 0
    /\ phase' = "parse"

\* <T>::parse_verbose(input)
CallParseVerbose ==
    /\ phase = "idle"
    /\ \E T \in Types : \E s \in Buffers(T) :
        /\ rule' = T
        /\ input' = s
        /\ \E std \in Toolchains : out' = parse_verbose(std, sexp_parse(T), s)
    /\ given' = <<>>
    /\ res' = NoResult
    /\ view' = 0
    /\ phase' = "parse_verbose"

\* word(tag)(view): the view starts after lead
CallWord ==
    /\ phase = "idle"
    /\ \E tag \in WordTags : \E lead \in WordLeads : \E s \in WordBuffers :
        /\ given' = tag
        /\ input' = lead \o s
        /\ view' = Len(lead)
        /\ res' = Run(word(tag), lead \o s, Len(lead))
    /\ rule' = "none"
    /\ out' = NoResult
    /\ phase' = "word"

\* surround(inner, input)
CallSurround ==
    /\ phase = "idle"
    /\ \E name \in Inners : \E s \in SurroundBuffers :
        /\ rule' = name
        /\ input' = s
        /\ res' = Run(surround(Inner(name)), s, 0)
    /\ given' = <<>>
    /\ out' = NoResult
    /\ view' = 0
    /\ phase' = "surround"

\* format_error(input, 0, e)
CallFormatError ==
    /\ phase = "idle"
    /\ \E s \in RenderBuffers : \E e \in RenderEntries(s) :
        /\ given' = <<e>>
        /\ input' = s
        /\ \E std \in Toolchains : out' = format_error(std, s, 0, e)
    /\ rule' = "none"
    /\ res' = NoResult
    /\ view' = 0
    /\ phase' = "format_error"

Next ==
    \/ CallSexpParse
    \/ CallParse
    \/ CallParseVerbose
    \/ CallWord
    \/ CallSurround
    \/ CallFormatError

Spec == Init /\ [][Next]_vars

-----------------------------------------------------------------------------
(* The loop of many0, turn by turn: rule names the element parser, view is *)
(* the offset the next turn starts at, given the elements taken so far.    *)

\* the largest number of pieces of a buffer a repetition runs over
MaxElems == 3

\* the element parsers the source hands to many0
Elements == {"blank", "comment_char", "u64", "String", "Option", "Left"}
Element(name) ==
    CASE name = "blank"        -> alt("wordbreak0", <<ignore(one_of(Whitespace)), comment>>)
      [] name = "comment_char" -> none_of({"\n"})
      [] name = "u64"          -> preceded(wordbreak0, u64)
      [] name = "String"       -> preceded(wordbreak0, String_)
      [] name = "Option"       -> preceded(wordbreak0, Option(u64))
      [] name = "Left"         -> preceded(wordbreak0, impl_sexpy(Left))

LoopBuffers ==
    Upto({<<" ">>, <<"\n">>, <<";","c">>, <<"1","2">>, K_foo, <<")">>}, MaxElems)

\* what the element parser returns on each view of each buffer
ElementRuns ==
    [name \in Elements |->
        [s \in LoopBuffers |-> [i \in 0..Len(s) |-> Run(Element(name), s, i)]]]

InitLoop ==
    /\ phase = "many0"
    /\ rule \in Elements
    /\ input \in LoopBuffers
    /\ view = 0
    /\ given = <<>>
    /\ res = NoResult
    /\ out = NoResult

\* one turn of the loop of many0
Many0Turn ==
    /\ phase = "many0"
    /\ LET turn == many0_step(view, given, ElementRuns[rule][input][view]) IN
       IF turn.done
       THEN /\ phase' = "returned"
            /\ res' = turn.res
            /\ UNCHANGED <<view, given>>
       ELSE /\ view' = turn.at
            /\ given' = turn.acc
            /\ UNCHANGED <<phase, res>>
    /\ UNCHANGED <<rule, input, out>>

NextLoop == Many0Turn

\* the loop runs until it returns
SpecLoop == InitLoop /\ [][NextLoop]_vars /\ WF_vars(NextLoop)

-----------------------------------------------------------------------------
(* Claims                                                                  *)

\* the entries an error accumulator holds
Entries(r) == {r.errors[k] : k \in 1..Len(r.errors)}

\* the candidates the alternation of a derived enum parser started
Tried(r) == {r.log[k].cand : k \in {j \in 1..Len(r.log) : r.log[j].site = "enum_parser"}}

\* an entry that speaks of the keyword bar or of the variant Bar
AboutBar(e) ==
    \/ e.kind = "Word"
    \/ e.kind = "Context" /\ e.arg = <<"Parsing ">> \o N_Bar
    \/ e.kind = "Nom" /\ e.arg = <<"Alt">>

\* (foo notanumber), and the same form with other separators, other
\* arguments that are no unsigned integer, and other endings
C1_Seps == {<<" ">>, <<"\n">>}
C1_Args == {K_notanumber, <<>>, <<"-", "1">>}
C1_Ends == {<<")">>, <<"]">>, <<>>}
C1_IsCase(sep, a, end) == input = <<"(">> \o K_foo \o sep \o a \o end

\* C1: for the alternation of (foo <int>) then (bar <int>), the input
\* (foo notanumber) fails with a committed failure; entry 0 of the
\* accumulator is the diagnostic the integer argument of foo raised at
\* notanumber; the bar candidate is never started and no entry is about bar.
C1_CommitPoint ==
    (phase = "sexp_parse" /\ rule = "FooBar") =>
        \A sep \in C1_Seps, a \in C1_Args, end \in C1_Ends :
            C1_IsCase(sep, a, end) =>
                /\ res.tag = "Failure"
                /\ res.errors[1] = Entry(Len(K_foo \o sep) + 1, "Nom", <<"Digit">>)
                /\ res.errors[1] = Run(u64, input, Len(K_foo \o sep) + 1).errors[1]
                /\ Tried(res) = {1}
                /\ \A e \in Entries(res) : ~AboutBar(e)

C1_Witness ==
    /\ phase = "sexp_parse" /\ rule = "FooBar"
    /\ input = <<"(">> \o K_foo \o <<" ">> \o K_notanumber \o <<")">>
    /\ res.tag = "Failure"
    /\ res.errors[1].at = 5

\* (portdef t n) followed by tr
C2_Form(t, n, tr) == <<"(">> \o K_portdef \o <<" ">> \o t \o <<" ">> \o n \o <<")">> \o tr

\* the buffer starts with (portdef t and a space
C2_Names(t) ==
    LET start == <<"(">> \o K_portdef \o <<" ">> \o t \o <<" ">> IN
    Len(input) >= Len(start) /\ SubSeq(input, 1, Len(start)) = start

\* (portdef t n) yields exactly (t, n) and leaves what follows the form
C2_Yields(t, n, tr) ==
    /\ res.tag = "Ok"
    /\ res.val = [ctor |-> N_Portdef, args |-> <<t, n>>]
    /\ res.rest = Len(input) - Len(tr)

\* the text tokens without a backslash
C2_PlainTokens == {t \in TextTokens : \A k \in 1..Len(t) : t[k] # "\\"}

\* C2 as stated: for every text token t (a letter followed by non-boundary
\* characters) and every unsigned integer n in range, (portdef t n) parsed by
\* the rule portdef(text, unsigned integer) succeeds with exactly the pair
\* (t, n), and the remaining view starts immediately after the closing
\* parenthesis.
C2_Original ==
    (phase = "sexp_parse" /\ rule = "Portdef" /\ input \in PortdefForms) =>
        \A t \in TextTokens :
            C2_Names(t) =>
                \A n \in NumTexts, tr \in Trailers :
                    input = C2_Form(t, n, tr) => C2_Yields(t, n, tr)

\* C2, amended: the same for every text token t that is a letter followed by
\* characters that are neither boundary characters nor a backslash.
C2_HeadPatternValue ==
    (phase = "sexp_parse" /\ rule = "Portdef" /\ input \in PortdefForms) =>
        \A t \in C2_PlainTokens :
            C2_Names(t) =>
                \A n \in NumTexts, tr \in Trailers :
                    input = C2_Form(t, n, tr) => C2_Yields(t, n, tr)

C2_Witness ==
    /\ phase = "sexp_parse" /\ rule = "Portdef"
    /\ input = C2_Form(<<"Q", "7", "-">>, ToDigits(12), <<" ", "x">>)
    /\ res.tag = "Ok"
    /\ res.val.args = <<<<"Q", "7", "-">>, <<"1", "2">>>>
    /\ res.rest = Len(input) - 2

\* the attempts of the alternation of a derived enum parser, in order
EnumLog(r) == SelectSeq(r.log, LAMBDA a : a.site = "enum_parser")

\* two results that differ at most in what was observed of them
SameResult(a, b) ==
    /\ a.tag = b.tag
    /\ a.rest = b.rest
    /\ a.val = b.val
    /\ a.errors = b.errors

\* C3: alternation is first-match-wins over the same input view: every
\* candidate is started on the view the alternation received, in declaration
\* order; the result of the first candidate that does not fail recoverably is
\* the result of the alternation; no later candidate is started after it, also
\* when what follows the alternation then fails; of two unit variants on
\* (plant) the second is never produced.
C3_FirstMatchWins ==
    (phase = "sexp_parse" /\ rule \in EnumTypes /\ EnumLog(res) # <<>>) =>
        LET L == EnumLog(res)
            cands == Candidates(rule)
            origin == L[1].at
            last == Run(cands[Len(L)], input, origin) IN
        /\ \A k \in 1..Len(L) : L[k].cand = k /\ L[k].at = origin
        /\ \A k \in 1..(Len(L) - 1) : Run(cands[k], input, origin).tag = "Error"
        /\ Len(L) < Len(cands) => last.tag # "Error"
        /\ rule \in BareAlternations =>
            /\ origin = 0
            /\ last.tag # "Error" => SameResult(res, last)
        /\ (IsOk(res) /\ rule \notin BareAlternations) =>
            /\ IsOk(last)
            /\ res.val = last.val
        /\ (IsOk(res) /\ rule = "PlantUnit") =>
            res.val.ctor = N_Plant \o <<"::">> \o N_PalmTree

\* the first candidate (Cactus, no arguments) succeeds, the closing
\* parenthesis is then missing, and PalmTree(String, u64) is not tried
C3_Witness ==
    /\ phase = "sexp_parse" /\ rule = "PltRev"
    /\ input = <<"(">> \o K_plt \o <<" ","t","e","s","t"," ","4",")">>
    /\ ~IsOk(res)
    /\ Len(EnumLog(res)) = 1
    /\ IsOk(Run(Candidates("PltRev")[2], input, 4))

\* surround(inner) was called on a buffer that starts with "(", inner
\* succeeded and ended at offset e, and no ")" follows the whitespace and
\* comments after e
C4_Unclosed(e) ==
    /\ phase = "surround"
    /\ Len(input) > 0 /\ input[1] = "("
    /\ LET ri == Run(preceded(wordbreak0, cut(Inner(rule))), input, 1) IN
       IsOk(ri) /\ ri.rest = e
    /\ ~IsOk(Run(preceded(wordbreak0, char(")")), input, e))

\* the accumulator names the closing parenthesis, at or after offset e
C4_Diagnosed(e) ==
    /\ \E x \in Entries(res) : x.kind = "Context" /\ x.arg = <<"closing paren">>
    /\ \A x \in Entries(res) : x.at >= e /\ x.at > 0

\* C4: surround(inner) on input that starts with "(" and whose inner parse
\* succeeds, but which has no matching ")" after optional whitespace and
\* comments, fails with a committed failure whose accumulator contains the
\* context label "closing paren", and every reported position is at or after
\* the end of the content matched by inner, never at the opening "(".
C4_MissingCloseCommitted ==
    \A e \in 0..Len(input) :
        C4_Unclosed(e) => (res.tag = "Failure" /\ C4_Diagnosed(e))

\* C4, what the code does: the same failure, returned as Err::Error
C4_MissingCloseRecoverable ==
    \A e \in 0..Len(input) :
        C4_Unclosed(e) => (res.tag = "Error" /\ C4_Diagnosed(e))

C4_Witness ==
    /\ C4_Unclosed(4)
    /\ rule = "String"
    /\ input = <<"(", "f", "o", "o">>
    /\ res.tag = "Error"


C5_Plain == <<"(">> \o K_plant \o <<")">>
C5_Padded == <<"(">> \o K_plant \o <<" ", " ", " ", ")">>
C5_Extra == <<"(">> \o K_plant \o <<" ", "h", "i", ")">>

C5_BothSucceed ==
    (phase = "sexp_parse" /\ rule = "Plant0" /\ input \in {C5_Plain, C5_Padded}) =>
        /\ IsOk(res)
        /\ res.rest = Len(input)
        /\ res.val = [ctor |-> N_Plant, args |-> <<>>]

\* C5: against the zero-argument rule plant, (plant) and (plant   ) succeed,
\* and (plant hi) fails with a committed error caused by the extra token
\* after the grammar is exhausted.
C5_ExtraTokenCommitted ==
    /\ C5_BothSucceed
    /\ (phase = "sexp_parse" /\ rule = "Plant0" /\ input = C5_Extra) =>
        /\ res.tag = "Failure"
        /\ \E x \in Entries(res) : x.at = 7

\* C5, what the code does: (plant hi) fails at the extra token with Err::Error
C5_ExtraTokenRecoverable ==
    /\ C5_BothSucceed
    /\ (phase = "sexp_parse" /\ rule = "Plant0" /\ input = C5_Extra) =>
        /\ res.tag = "Error"
        /\ \E x \in Entries(res) : x.at = 7

C5_Witness ==
    /\ phase = "sexp_parse" /\ rule = "Plant0" /\ input = C5_Extra
    /\ res.tag = "Error"

C6_Boundary == {" ", "\t", "\r", "\n", "(", ")", "[", "]", "{", "}", ";"}

\* the token at the view ends at offset j: the maximal run of characters
\* outside the boundary set
C6_TokenEnds(j) ==
    /\ j \in view..Len(input)
    /\ \A m \in (view + 1)..j : input[m] \notin C6_Boundary
    /\ j < Len(input) => input[j + 1] \in C6_Boundary

\* C6: word(tag) consumes the maximal run of characters outside the boundary
\* set (space, tab, CR, LF, parentheses, brackets, braces, semicolon) and
\* succeeds iff that whole run equals tag.  On success it returns unit and the
\* remainder begins at the untouched boundary (or is empty); otherwise it
\* fails recoverably with one expected-keyword diagnostic that carries the
\* whole run and is positioned at the start of the token.
C6_WholeToken ==
    phase = "word" =>
        \A j \in view..Len(input) :
            C6_TokenEnds(j) =>
                LET token == SubSeq(input, view + 1, j) IN
                /\ IsOk(res) <=> token = given
                /\ IsOk(res) => (res.rest = j /\ res.val = <<>>)
                /\ ~IsOk(res) =>
                    /\ res.tag = "Error"
                    /\ res.errors = <<[at |-> view, kind |-> "Word", arg |-> token]>>

C6_Witness ==
    /\ phase = "word" /\ given = K_foo /\ view = 2
    /\ SubSeq(input, 3, Len(input)) = K_foo_bar \o <<" ">>
    /\ res.tag = "Error"
    /\ res.errors[1].arg = K_foo_bar


\* what each candidate of the alternation of T returns on the view at offset i
C7_Alone(T, i) == [k \in 1..Len(Candidates(T)) |-> Run(Candidates(T)[k], input, i)]

\* C7: when every candidate of an alternation fails recoverably, the
\* alternation fails recoverably with the error of the last candidate in
\* declaration order: the returned accumulator starts with the entries of the
\* last candidate (its deepest diagnostic at index 0), followed only by the
\* alternation's own entry, and no entry that only an earlier candidate
\* raised is kept.
C7_LastCandidateError ==
    (phase = "sexp_parse" /\ rule \in EnumTypes /\ EnumLog(res) # <<>>) =>
        LET origin == EnumLog(res)[1].at
            alone == C7_Alone(rule, origin)
            last == alone[Len(alone)].errors IN
        (\A k \in 1..Len(alone) : alone[k].tag = "Error") =>
            /\ ~IsOk(res)
            /\ Len(res.errors) > Len(last)
            /\ SubSeq(res.errors, 1, Len(last)) = last
            /\ res.errors[1] = last[1]
            /\ res.errors[Len(last) + 1] = [at |-> origin, kind |-> "Nom", arg |-> <<"Alt">>]
            /\ rule \in BareAlternations =>
                /\ res.tag = "Error"
                /\ Len(res.errors) = Len(last) + 1
            /\ \A k \in 1..(Len(alone) - 1) :
                \A e \in Entries(alone[k]) :
                    e \notin Entries(alone[Len(alone)]) => e \notin Entries(res)

C7_Witness ==
    /\ phase = "sexp_parse" /\ rule = "Value" /\ input = <<"-", "x">>
    /\ res.tag = "Error"
    /\ C7_Alone("Value", 0)[1].errors[1] = [at |-> 0, kind |-> "Nom", arg |-> <<"Digit">>]
    /\ C7_Alone("Value", 0)[2].tag = "Error"
    /\ res.errors[1] = [at |-> 1, kind |-> "Nom", arg |-> <<"Digit">>]
    /\ Len(res.errors) = 3

\* the kinds an enclosing combinator attaches while unwinding
C8_Attached(e) ==
    \/ e.kind = "Context"
    \/ e.kind = "Nom" /\ e.arg \in {<<"Alt">>, <<"Many1">>}

\* what inner alone returns on the view surround hands it
C8_InnerAlone == Run(preceded(wordbreak0, Inner(rule)), input, 1)

\* C8: in every failure a combinator returns, index 0 of the accumulator is
\* the diagnostic raised first, by the innermost parser, and every later index
\* was attached by an enclosing combinator, at a view that starts no later
\* than the one before it; what an enclosing combinator returns starts with
\* the accumulator of the parser it encloses, unchanged and in order.
C8_DeepestFirst ==
    /\ (phase \in {"sexp_parse", "word", "surround"} /\ ~IsOk(res)) =>
        /\ res.errors # <<>>
        /\ ~C8_Attached(res.errors[1])
        /\ \A k \in 2..Len(res.errors) :
            /\ C8_Attached(res.errors[k])
            /\ res.errors[k].at <= res.errors[k - 1].at
    /\ (phase = "surround" /\ Len(input) > 0 /\ input[1] \in {"(", "["}
            /\ ~IsOk(C8_InnerAlone)) =>
        /\ ~IsOk(res)
        /\ Len(res.errors) >= Len(C8_InnerAlone.errors)
        /\ SubSeq(res.errors, 1, Len(C8_InnerAlone.errors)) = C8_InnerAlone.errors

C8_Witness ==
    /\ phase = "sexp_parse" /\ ~IsOk(res)
    /\ Len(res.errors) >= 3
    /\ res.errors[1].kind = "Word"
    /\ res.errors[2].kind = "Context"
    /\ res.errors[3].kind = "Nom"
    /\ res.errors[1].at > res.errors[3].at


\* a rendered entry whose line and column are inside the source line it shows
C9_InRange(m) ==
    /\ ~m.panic
    /\ m.located =>
        /\ m.line <= Cardinality({k \in 1..Len(input) : input[k] = "\n"})
        /\ m.column <= Len(m.source)

\* C9: parse and parse_verbose never panic: for every input they return
\* Ok(value) or Err(rendered diagnostic), the rendering has at least one
\* entry, and the position arithmetic and the line lookup of the renderer
\* stay in range.
C9_NeverPanics ==
    /\ phase \in {"parse", "parse_verbose"} =>
        /\ out.tag \in {"Ok", "Err"}
        /\ out.tag = "Err" =>
            /\ out.msg # <<>>
            /\ \A k \in 1..Len(out.msg) : C9_InRange(out.msg[k])
    /\ phase = "format_error" => C9_InRange(out)

C9_Witness ==
    /\ phase = "parse_verbose" /\ out.tag = "Err"
    /\ Len(out.msg) >= 2
    /\ out.msg[1].line = 1
    /\ out.msg[1].column = Len(out.msg[1].source)
    /\ out.msg[1].column > 0

\* the number of line terminators before offset o of buffer s
C10_Line(s, o) == Cardinality({m \in 1..o : s[m] = "\n"})

\* the offset of the first byte of the line that offset o of buffer s is on
C10_LineStart(s, o) ==
    LET ends == {m \in 1..o : s[m] = "\n"} IN
    IF ends = {} THEN 0 ELSE CHOOSE m \in ends : \A n \in ends : n <= m

\* C10: the rendered position is exact: for every buffer and every entry
\* whose view is the suffix of the buffer at offset o, the rendered line is
\* the number of line terminators before o and the rendered column is o
\* minus the offset of the first byte of that line, CRLF terminators and a
\* view at the end of input after a trailing terminator included.
C10_ExactPosition ==
    (phase = "format_error" /\ ~out.panic /\ out.located) =>
        /\ out.line = C10_Line(input, given[1].at)
        /\ out.column = given[1].at - C10_LineStart(input, given[1].at)

\* C10, what the code does: the position is exact when no "\r" precedes the
\* view and the view is not the end of input after a trailing "\n"
C10_ExactWithoutCR ==
    (phase = "format_error" /\ ~out.panic /\ out.located
        /\ (\A m \in 1..given[1].at : input[m] # "\r")
        /\ ~(given[1].at = Len(input) /\ input[Len(input)] = "\n")) =>
        /\ out.line = C10_Line(input, given[1].at)
        /\ out.column = given[1].at - C10_LineStart(input, given[1].at)

C10_Witness ==
    /\ phase = "format_error"
    /\ input = <<"a", "\r", "\n", "b", "c">>
    /\ given[1].at = 3
    /\ out.line = 1 /\ out.column = 1


\* C11: no failure is silent: every result that is not Ok, recoverable or
\* committed, of every parser that is called carries at least one entry, so
\* parse and parse_verbose never reach convert_error with an empty
\* accumulator and always render at least one entry.
C11_NoSilentFailure ==
    /\ (phase \in {"sexp_parse", "word", "surround"} /\ ~IsOk(res)) =>
        /\ res.tag \in {"Error", "Failure"}
        /\ Len(res.errors) >= 1
    /\ (phase \in {"parse", "parse_verbose"} /\ out.tag # "Ok") =>
        /\ out.tag = "Err"
        /\ Len(out.msg) >= 1

C11_Witness ==
    /\ phase = "word" /\ given = K_foo /\ view = 0
    /\ input = <<"x">>
    /\ res.tag = "Error"
    /\ Len(res.errors) = 1


\* the buffer with its first and last character replaced by "(" and ")"
C12_InParens(s) == <<"(">> \o SubSeq(s, 2, Len(s) - 1) \o <<")">>

\* the buffer is wrapped in open .. close
C12_Wrapped(open, close) ==
    /\ Len(input) >= 2
    /\ input[1] = open
    /\ input[Len(input)] = close

\* the result is that of the same pattern wrapped in parentheses
C12_AsInParens ==
    LET twin == Run(sexp_parse(rule), C12_InParens(input), 0) IN
    /\ IsOk(twin) <=> IsOk(res)
    /\ IsOk(twin) => (res.val = twin.val /\ res.rest = twin.rest)

\* C12: surround accepts curly braces as a third surrounding form: a head
\* pattern wrapped in { .. } is parsed exactly as the same pattern wrapped in
\* ( .. ) or [ .. ].
C12_BracesAccepted ==
    (phase = "sexp_parse" /\ rule \in Types /\ Decl(rule).attrs.surround) =>
        /\ C12_Wrapped("{", "}") => C12_AsInParens
        /\ C12_Wrapped("[", "]") => C12_AsInParens

\* C12, what the code does: brackets are parsed as parentheses are, and a
\* buffer that starts with a brace fails recoverably, "(" expected at the brace
C12_BracketsOnly ==
    (phase = "sexp_parse" /\ rule \in Types /\ Decl(rule).attrs.surround) =>
        /\ C12_Wrapped("[", "]") => C12_AsInParens
        /\ (Len(input) >= 1 /\ input[1] = "{") =>
            /\ res.tag = "Error"
            /\ res.errors = <<[at |-> 0, kind |-> "Char", arg |-> <<"(">>]>>

C12_Witness ==
    /\ phase = "sexp_parse" /\ rule = "Portdef"
    /\ input = <<"{">> \o K_portdef \o <<" ","f","o","o"," ","2","0","}">>
    /\ res.tag = "Error"
    /\ IsOk(Run(sexp_parse("Portdef"), C12_InParens(input), 0))


\* (portdef t n) with sep between the text token and the number
C13_Form(t, sep, n) ==
    <<"(">> \o K_portdef \o <<" ">> \o t \o sep \o n \o <<")">>

C13_Texts == {<<"f","o","o">>, <<"Q">>}
C13_Nums == {<<"2","0">>, <<"0">>}

\* C13: whitespace is insignificant between two tokens: for the rule
\* portdef(text, unsigned integer), a tab, CR or LF between the text token
\* and the next token gives the same parse result as a single space: a text
\* token ends at the first whitespace character of any of the four kinds.
C13_TextEndsAtWhitespace ==
    (phase = "sexp_parse" /\ rule = "Portdef") =>
        \A t \in C13_Texts, n \in C13_Nums, sep \in {<<"\t">>, <<"\r">>, <<"\n">>} :
            input = C13_Form(t, sep, n) =>
                LET spaced == Run(sexp_parse("Portdef"), C13_Form(t, <<" ">>, n), 0) IN
                /\ IsOk(spaced)
                /\ IsOk(res)
                /\ res.val = spaced.val
                /\ res.rest = Len(input)

\* C13, what the code does: a text token ends at a space, and takes a tab,
\* CR or LF that follows it into the text; the number is then missing
C13_TextEndsAtSpace ==
    (phase = "sexp_parse" /\ rule = "Portdef") =>
        \A t \in C13_Texts, n \in C13_Nums :
            /\ \A sep \in {<<" ">>, <<" ","\t">>} :
                input = C13_Form(t, sep, n) =>
                    (IsOk(res) /\ res.val = [ctor |-> N_Portdef, args |-> <<t, n>>])
            /\ \A sep \in {<<"\t">>, <<"\r">>, <<"\n">>, <<"\r","\n">>} :
                input = C13_Form(t, sep, n) =>
                    /\ res.tag = "Failure"
                    /\ res.errors[1] = [at |-> Len(input) - 1, kind |-> "Nom", arg |-> <<"Digit">>]

C13_Witness ==
    /\ phase = "sexp_parse" /\ rule = "Portdef"
    /\ input = C13_Form(<<"f","o","o">>, <<"\t">>, <<"2","0">>)
    /\ res.tag = "Failure"
    /\ res.errors[1].at = 15


\* whether a call of parse succeeded, and with which value
C14_Value(r) == IF r.tag = "Ok" THEN <<"Ok", r.val>> ELSE <<"Err">>

\* C14: comments are skipped: for every input s, parse of a comment line
\* followed by s succeeds iff parse of s succeeds, with the identical value;
\* and a comment put before a well-formed form or between two of its tokens
\* leaves the successful result unchanged.
C14_CommentsSkipped ==
    phase = "parse" =>
        /\ \A note \in Notes :
            C14_Value(parse("cr_kept", sexp_parse(rule), note \o input)) = C14_Value(out)
        /\ \A s \in Plain(rule) : \A p \in Between(s) : \A note \in Notes :
            input = Insert(s, p, note) =>
                /\ out.tag = "Ok"
                /\ out = parse("cr_kept", sexp_parse(rule), s)

C14_Witness ==
    /\ phase = "parse" /\ rule = "Portdef"
    /\ input = <<"(">> \o K_portdef \o <<" ","f","o","o",";"," ","n","o","t","e","\n"," ","2","0",")">>
    /\ out.tag = "Ok"
    /\ out.val.args = <<<<"f","o","o">>, <<"2","0">>>>


\* C15: every repetition over a finite input terminates: a turn of the loop
\* of many0 either takes an element that consumed at least one character, and
\* starts the next turn further into the buffer, or returns; so the loop
\* returns, also when the element parser can succeed without consuming
\* (an optional), where it returns an error.
C15_Terminates ==
    /\ <>(phase = "returned")
    /\ [][\/ phase' = "returned"
          \/ view' > view /\ view' <= Len(input) /\ Len(given') = Len(given) + 1]_vars

\* the loop returned what the parser built by many0 returns
C15_SameAsMany0 ==
    phase = "returned" => SameResult(res, Run(many0(Element(rule)), input, 0))

C15_Witness ==
    /\ phase = "returned" /\ rule = "Option"
    /\ input = <<"1","2"," ","1","2">>
    /\ res.tag = "Error"
    /\ res.errors = <<[at |-> 5, kind |-> "Nom", arg |-> <<"Many0">>]>>
    /\ Len(given) = 2


\* ---------------------------------------------------------------------------
\* C16: (portdef n t), the fields of portdef(text, unsigned) in the other
\* order, does not parse: Portdef::parse returns Err, and the entry it renders
\* (errors[0], the deepest) is nom's Alpha error of the text parser, located on
\* line 0 at column 9, where the number stands.  The form without delimiters,
\* portdef t n, does not parse either: '(' was expected at column 0.
C16_Delimited == input \in SwappedForms /\ input[1] = "("
C16_Undelimited == input \in SwappedForms /\ input[1] # "("
C16_SwappedFieldsFail ==
    (phase = "parse" /\ rule = "Portdef" /\ input \in SwappedForms) =>
        /\ out.tag = "Err"
        /\ Len(out.msg) = 1
        /\ LET m == out.msg[1]
               e == Run(preceded(wordbreak0, sexp_parse(rule)), input, 0).errors[1] IN
           /\ m.num = 0 /\ m.located /\ m.line = 0 /\ m.source = input
           /\ C16_Delimited =>
                /\ e = [at |-> 9, kind |-> "Nom", arg |-> <<"Alpha">>]
                /\ m.kind = "Nom" /\ m.label = <<"Alpha">> /\ m.column = 9
                /\ input[m.column + 1] \in Digits
           /\ C16_Undelimited =>
                /\ e = [at |-> 0, kind |-> "Char", arg |-> <<"(">>]
                /\ m.kind = "Char" /\ m.label = <<"(">> /\ m.column = 0
                /\ m.desc = <<"expected", "(", "found", "p">>
C16_Witness ==
    /\ phase = "parse" /\ rule = "Portdef"
    /\ input = <<"(","p","o","r","t","d","e","f"," ","1","2"," ","f","o","o",")">>
    /\ out.tag = "Err"
    /\ out.msg[1].kind = "Nom" /\ out.msg[1].column = 9


\* ---------------------------------------------------------------------------
\* C17: a failure is Err::Error where it originates (a character, a keyword,
\* a number, a text token, a delimiter that is missing); it is Err::Failure
\* only after cut, which head puts around its inner parser and surround
\* around its inner parser; context returns the classification it was given
\* and adds one entry at the end of the accumulator.
C17_Origins ==
    {String_, u64, u32, i64, i32, char("("), char(")"), char("]"), wordbreak1,
     word(K_foo), context(<<"incorrect head">>, word(K_foo)),
     context(<<"closing paren">>, preceded(wordbreak0, char(")")))}
C17_Labelled(label, p, s, i) ==
    LET r == Run(p, s, i)
        c == Run(context(label, p), s, i) IN
    /\ c.tag = r.tag
    /\ ~IsOk(r) =>
        /\ Len(c.errors) = Len(r.errors) + 1
        /\ SubSeq(c.errors, 1, Len(r.errors)) = r.errors
        /\ c.errors[Len(c.errors)] = [at |-> i, kind |-> "Context", arg |-> label]
C17_Classification ==
    /\ ((phase = "word" /\ given = K_foo) \/ (phase = "surround" /\ rule = "u64")) =>
        \A i \in 0..Len(input) :
            /\ \A p \in C17_Origins :
                /\ Run(p, input, i).tag # "Failure"
                /\ C17_Labelled(<<"l">>, p, input, i)
            /\ \A inner \in {u64, String_} :
                LET r == Run(head(K_foo, inner), input, i) IN
                /\ r.tag = "Failure" <=>
                    LET w == Run(word(K_foo), input, i) IN
                    IsOk(w) /\ ~IsOk(Run(inner, input, w.rest))
                /\ C17_Labelled(<<"l">>, head(K_foo, inner), input, i)
    /\ phase = "word" => res.tag # "Failure"
    /\ phase = "surround" =>
        LET opened == input # <<>> /\ input[1] \in {"(", "["}
            body == Run(preceded(wordbreak0, Inner(rule)), input, 1) IN
        /\ res.tag = "Failure" <=> (opened /\ ~IsOk(body))
        /\ (res.tag = "Failure" /\ rule \in {"String", "u64"}) => body.tag = "Error"
        /\ (opened /\ IsOk(body)) => res.tag \in {"Ok", "Error"}
        /\ C17_Labelled(<<"l">>, surround(Inner(rule)), input, 0)
    /\ (phase = "sexp_parse" /\ Decl(rule).attrs.surround /\ res.tag = "Failure") =>
        input # <<>> /\ input[1] \in {"(", "["}
C17_Witness ==
    /\ phase = "surround" /\ rule = "u64"
    /\ input = <<"(","f","o","o",")">>
    /\ res.tag = "Failure"
    /\ res.errors = <<[at |-> 1, kind |-> "Nom", arg |-> <<"Digit">>]>>
    /\ Run(u64, input, 1).tag = "Error"


\* ---------------------------------------------------------------------------
\* C18: wordbreak0 returns Ok at every offset of every buffer; what it
\* consumes is the longest run of whitespace characters and ';' comments that
\* starts at the offset, which is empty when neither stands there; applied to
\* its own remainder it consumes nothing.
\* position k of s lies in a comment that starts at or after offset i
C18_InComment(s, i, k) ==
    \E c \in (i + 1)..k :
        /\ s[c] = ";"
        /\ \A n \in c..k : s[n] # "\n"
C18_Break(s, i, j) ==
    /\ j \in i..Len(s)
    /\ \A k \in (i + 1)..j : s[k] \in Whitespace \/ C18_InComment(s, i, k)
    /\ j < Len(s) => s[j + 1] \notin Whitespace /\ ~C18_InComment(s, i, j + 1)
C18_Wordbreak0Total ==
    phase = "surround" =>
        \A i \in 0..Len(input) :
            LET r == Run(wordbreak0, input, i)
                again == Run(wordbreak0, input, r.rest) IN
            /\ IsOk(r)
            /\ C18_Break(input, i, r.rest)
            /\ (i = Len(input) \/ input[i + 1] \notin Whitespace \cup {";"}) => r.rest = i
            /\ IsOk(again) /\ again.rest = r.rest
C18_Witness ==
    /\ phase = "surround" /\ rule = "String"
    /\ input = <<"("," ","f","o","o"," ",";","c","\n",")">>
    /\ IsOk(res)
    /\ Run(wordbreak0, input, 5).rest = 9
    /\ Run(wordbreak0, input, 9).rest = 9


\* ---------------------------------------------------------------------------
\* C19: an enum whose variants carry the head keywords h_1..h_k parses
\* (H h_i args), H being the head of the type, to variant i, whatever the
\* order the variants are declared in; with #[sexpy(nohead)] on the type the
\* form it parses to variant i is (h_i args), and each kind of type refuses
\* the form of the other.
C19_Types == {"PlantHeads", "PlantHeadsRev", "PlantNoHead", "PlantNoHeadRev"}
C19_Form(headed, var, t, n) ==
    <<"(">> \o (IF headed THEN K_plant \o <<" ">> ELSE <<>>)
            \o var.attrs.head[1] \o <<" ">> \o t \o <<" ">> \o n \o <<")">>
C19_VariantChosen ==
    (phase \in {"sexp_parse", "parse"} /\ rule \in C19_Types) =>
        \A k \in 1..Len(Decl(rule).variants) : \A t \in HeadTexts : \A n \in HeadNums :
            LET var == Decl(rule).variants[k]
                value == [ctor |-> N_Plant \o <<"::">> \o var.name, args |-> <<t, n>>]
                got == IF phase = "parse" THEN out ELSE res IN
            /\ input = C19_Form(~Decl(rule).attrs.nohead, var, t, n) =>
                /\ got.tag = "Ok"
                /\ got.val = value
                /\ phase = "sexp_parse" => got.rest = Len(input)
            /\ input = C19_Form(Decl(rule).attrs.nohead, var, t, n) => got.tag # "Ok"
C19_Witness ==
    /\ phase = "parse" /\ rule = "PlantHeadsRev"
    /\ input = <<"(">> \o K_plant \o <<" ">> \o K_cactus \o <<" ","j","o","s","h"," ","4","0","0",")">>
    /\ out.tag = "Ok"
    /\ out.val = [ctor |-> N_Plant \o <<"::">> \o N_Cactus,
                  args |-> <<<<"j","o","s","h">>, <<"4","0","0">>>>]


\* ---------------------------------------------------------------------------
\* C20: an entry whose view is empty, the failure being at the end of the
\* buffer, is rendered with <eof> as what was found, whatever its kind and
\* whatever the buffer, the empty one included, and nothing is read past the
\* end of the buffer.
C20_AtEnd == phase = "format_error" /\ given[1].at = Len(input)
C20_EofNamed ==
    C20_AtEnd =>
        /\ ~out.panic
        /\ \E k \in 1..Len(out.desc) : out.desc[k] = "<eof>"

\* C20, what the code does: only an entry of kind Char names what was found
\* in the buffer.  At the end of a buffer that has a line it names <eof>,
\* before the end the first character of the view; a Word entry names the
\* word it recorded, the other kinds name nothing; for the buffer without a
\* line every kind says "got empty input".  In no case is there a panic.
C20_EofOfChar ==
    phase = "format_error" =>
        LET e == given[1] IN
        /\ C20_AtEnd => ~out.panic
        /\ (~out.panic /\ out.located /\ e.kind = "Char") =>
            out.desc = <<"expected", e.arg[1], "found",
                         IF C20_AtEnd THEN "<eof>" ELSE input[e.at + 1]>>
        /\ (C20_AtEnd /\ out.located /\ e.kind = "Word") =>
            out.desc = <<"expected a keyword, found">> \o e.arg
        /\ (C20_AtEnd /\ out.located /\ e.kind = "Number") =>
            out.desc = <<"unable to parse number">>
        /\ (C20_AtEnd /\ out.located /\ e.kind \in {"Context", "Nom"}) => out.desc = <<>>
        /\ (C20_AtEnd /\ ~out.located) =>
            /\ input = <<>>
            /\ out.desc[Len(out.desc)] \in
                 {"got empty input", "expected a keyword, got empty input",
                  "expected a number, got empty input"}
        /\ input = <<>> => ~out.located
C20_Witness ==
    /\ phase = "format_error"
    /\ input = <<"b", "c", "\n", "a">>
    /\ given[1] = [at |-> 4, kind |-> "Char", arg |-> <<")">>]
    /\ out.line = 1 /\ out.column = 1
    /\ out.desc = <<"expected", ")", "found", "<eof>">>


\* ---------------------------------------------------------------------------
\* C21: add_context(view, label, acc) keeps the entries of acc, unchanged and
\* in order, and adds exactly one Context entry (view, label), which it puts
\* in front of the entries of acc; the view of the new entry is where the
\* parser wrapped in context started, not where the failure was raised.
C21_Label == <<"l">>
C21_Failed == phase \in {"sexp_parse", "word", "surround"} /\ ~IsOk(res)
C21_PushedInFront ==
    C21_Failed =>
        \A v \in 0..Len(input) :
            LET new == add_context(v, C21_Label, res.errors) IN
            /\ Len(new) = Len(res.errors) + 1
            /\ new[1] = [at |-> v, kind |-> "Context", arg |-> C21_Label]
            /\ SubSeq(new, 2, Len(new)) = res.errors

\* C21, what the code does: the new entry is pushed at the end of the Vec,
\* after the entries of acc, so that index 0 stays the entry raised first;
\* everything else is as stated, and through context the view of the new
\* entry is the view the wrapped parser was started on.
C21_PushedLast ==
    /\ C21_Failed =>
        \A v \in 0..Len(input) :
            LET new == add_context(v, C21_Label, res.errors) IN
            /\ Len(new) = Len(res.errors) + 1
            /\ SubSeq(new, 1, Len(res.errors)) = res.errors
            /\ new[Len(new)] = [at |-> v, kind |-> "Context", arg |-> C21_Label]
    /\ (phase = "surround" /\ ~IsOk(res)) =>
        LET wrapped == Run(context(C21_Label, surround(Inner(rule))), input, 0) IN
        /\ wrapped.tag = res.tag
        /\ wrapped.errors =
             Append(res.errors, [at |-> 0, kind |-> "Context", arg |-> C21_Label])
C21_Witness ==
    /\ phase = "surround" /\ rule = "u64"
    /\ input = <<"(", " ", "f", "o", "o", ")">>
    /\ res.errors = <<[at |-> 2, kind |-> "Nom", arg |-> <<"Digit">>]>>
    /\ Run(context(C21_Label, surround(u64)), input, 0).errors =
         <<[at |-> 2, kind |-> "Nom", arg |-> <<"Digit">>],
           [at |-> 0, kind |-> "Context", arg |-> C21_Label]>>


\* ---------------------------------------------------------------------------
\* C22: Vec<T> returns the values of the occurrences of T that follow one
\* another, each after optional whitespace and comments, in the order of the
\* input; the first occurrence that fails with Err::Error ends it with Ok, the
\* remainder being the view that occurrence was started on, before its
\* whitespace; an occurrence that fails with Err::Failure makes the whole
\* Vec fail with that failure.
C22_Vecs == {"u64", "String", "Left"}
C22_Occurrence == ElementRuns[rule][input][view]
C22_Returned ==
    (phase = "returned" /\ rule \in C22_Vecs) =>
        /\ C22_Occurrence.tag # "Ok"
        /\ C22_Occurrence.tag = "Error" =>
            /\ res.tag = "Ok" /\ res.val = given /\ res.rest = view
            /\ Run(wordbreak0, input, view).rest <= C22_Occurrence.errors[1].at
        /\ C22_Occurrence.tag = "Failure" =>
            /\ res.tag = "Failure" /\ res.errors = C22_Occurrence.errors
        /\ SameResult(res, Run(Vec(Element(rule).b), input, 0))
C22_InOrder ==
    /\ []C22_Returned
    /\ [][(rule \in C22_Vecs /\ phase' = "many0") =>
            /\ IsOk(C22_Occurrence)
            /\ given' = Append(given, C22_Occurrence.val)
            /\ view' = C22_Occurrence.rest
            /\ view' > Run(wordbreak0, input, view).rest]_vars
C22_Witness ==
    /\ phase = "returned" /\ rule = "u64"
    /\ input = <<"1","2"," ",")">>
    /\ res.tag = "Ok" /\ res.val = <<<<"1","2">>>> /\ res.rest = 2
    /\ C22_Occurrence.errors[1].at = 3


\* ---------------------------------------------------------------------------
\* the sign and the digits of a decimal text, and the integer it denotes
\* written without leading zeros
C23_Negative(text) == text[1] = "-"
C23_Digits(text) == IF C23_Negative(text) THEN Tail(text) ELSE text
C23_Value(text) ==
    LET num == StripZeros(C23_Digits(text)) IN
    IF C23_Negative(text) /\ num # <<"0">> THEN <<"-">> \o num ELSE num
C23_Parsed(text) ==
    LET r == Run(i64, text, 0) IN
    /\ IsOk(r) /\ r.val = C23_Value(text) /\ r.rest = Len(text)
    /\ (C23_Negative(text) /\ phase = "sexp_parse") =>
        /\ IsOk(res)
        /\ res.val = [ctor |-> N_Value \o <<"::">> \o N_Neg, args |-> C23_Value(text)]
C23_Refused(text) ==
    LET r == Run(i64, text, 0) IN
    /\ r.tag = "Error"
    /\ r.errors = <<[at |-> 0, kind |-> "Number", arg |-> <<>>]>>
C23_Called == phase \in {"sexp_parse", "parse"} /\ rule = "Value" /\ input \in SignedTexts

\* C23: i64 parses the decimal text of every integer from -2^63 to 2^63 - 1,
\* with "-" before a negative one, to exactly that integer; a text whose
\* magnitude is outside the range is refused with the Number diagnostic.
C23_FullRange ==
    C23_Called =>
        LET inRange ==
                \/ DecLeq(StripZeros(C23_Digits(input)), I64MaxText)
                \/ C23_Negative(input) /\ StripZeros(C23_Digits(input)) = I64MinDigits
        IN IF inRange THEN C23_Parsed(input) ELSE C23_Refused(input)

\* C23, what the code does: the digits are parsed as a positive i64 before
\* the sign is applied, so the range is -(2^63 - 1) to 2^63 - 1 and the text
\* of i64::MIN is refused like any text past the range.
C23_SymmetricRange ==
    C23_Called =>
        IF DecLeq(StripZeros(C23_Digits(input)), I64MaxText)
        THEN C23_Parsed(input) ELSE C23_Refused(input)


\* ---------------------------------------------------------------------------
\* C24: after surround has matched its opening delimiter, every failure of
\* its inner parser is returned as Err::Failure, the mismatch of a head
\* keyword, which word and head raise as Err::Error, included.  So the
\* alternation of (foo n) and (bar n), each with its own delimiters, fails
\* on (bar 1) with the committed mismatch of foo and does not start the
\* second candidate, which alone accepts it.
C24_Opened == input # <<>> /\ input[1] \in {"(", "["}
C24_HeadMismatchCommitted ==
    /\ (phase = "surround" /\ rule = "head" /\ C24_Opened) =>
        LET inside == Run(preceded(wordbreak0, Inner(rule)), input, 1) IN
        ~IsOk(inside) =>
            /\ inside.tag = "Error"
            /\ inside.errors[1].kind = "Word"
            /\ res.tag = "Failure"
            /\ res.errors = inside.errors
    /\ (phase = "sexp_parse" /\ rule = "Wrapped" /\ C24_Opened) =>
        LET at == Run(wordbreak0, input, 1).rest IN
        ~IsOk(Run(word(K_foo), input, at)) =>
            /\ res.tag = "Failure"
            /\ res.errors[1].kind = "Word" /\ res.errors[1].at = at
            /\ Tried(res) = {1}
C24_Witness ==
    /\ phase = "sexp_parse" /\ rule = "Wrapped"
    /\ input = <<"(">> \o K_bar \o <<" ", "1", ")">>
    /\ res.tag = "Failure"
    /\ res.errors[1] = [at |-> 1, kind |-> "Word", arg |-> K_bar]
    /\ Tried(res) = {1}
    /\ IsOk(Run(Candidates("Wrapped")[2], input, 0))


\* ---------------------------------------------------------------------------
\* C25: parse and parse_verbose do not look at the remainder: when the parser
\* of the type, after leading whitespace and comments, succeeds on a prefix
\* of the input, the call returns Ok with its value whatever follows, the
\* same Ok value that the prefix alone gives.
C25_Rules == {"Portdef", "Plant0", "Value"}
C25_RemainderDiscarded ==
    (phase \in {"parse", "parse_verbose"} /\ rule \in C25_Rules) =>
        LET typed == preceded(wordbreak0, sexp_parse(rule))
            r == Run(typed, input, 0) IN
        IsOk(r) =>
            /\ out.tag = "Ok"
            /\ out.val = r.val
            /\ out.msg = <<>>
            /\ LET alone == Run(typed, SubSeq(input, 1, r.rest), 0) IN
               /\ IsOk(alone)
               /\ alone.val = out.val
               /\ alone.rest = r.rest
C25_Witness ==
    /\ phase = "parse" /\ rule = "Portdef"
    /\ input = <<"(">> \o K_portdef \o <<" ", "f", "o", "o", " ", "1", "2", ")", " ", "x">>
    /\ out.tag = "Ok"
    /\ out.val = [ctor |-> N_Portdef, args |-> <<<<"f","o","o">>, <<"1","2">>>>]

====
